---- MODULE Spec2Model ----
(***************************************************************************)
(* Kin Spark: the per-turn request pipeline of the chat widget API.        *)
(*                                                                         *)
(* Three specifications share this module:                                 *)
(*   SpecRateLimiter  the in-memory sliding window (rate_limiter.py)       *)
(*   SpecPreflight    run_preflight and its three branches (preflight.py)  *)
(*   Spec             sessions and concurrent /spark/chat requests         *)
(*                    (routers/spark.py, spark/core.py, spark/session.py,  *)
(*                    llm.py)                                              *)
(* Each specification leaves the variables of the others at their initial  *)
(* value.                                                                  *)
(***************************************************************************)
EXTENDS Integers, Sequences, FiniteSets, TLC

VARIABLES
    \* ---- rate limiter ----
    windows,    \* SparkRateLimiter._windows: key -> list of timestamps
    clock,      \* time.monotonic(), in seconds
    rlLog,      \* history: key -> sequence of [t, ok] of the check() calls made
    \* ---- preflight ----
    pfIn,       \* what the two classifier calls and the retrieval produce
    pfOut,      \* what run_preflight returns for it
    pfDone,     \* run_preflight has been called
    \* ---- prompt assembly ----
    promptIn,   \* the arguments and template of one build_system_prompt call
    promptOut,  \* what the call produced
    promptDone, \* build_system_prompt has been called
    \* ---- LLM service ----
    llm,        \* one complete() or stream() call and the model attempts it makes
    \* ---- sessions and chat requests ----
    convs,      \* spark_conversations: sequence of rows, id = index
    messages,   \* spark_messages: per conversation id, the rows in insert order
    tasks,      \* per conversation id, the counter increments launched and not yet run
    utcnow,     \* datetime.now(timezone.utc), in ticks
    req,        \* the /spark/chat requests in flight: slot -> its locals
    incLog,     \* history: per conversation id, the values increment_turn returned
    mode,       \* PREFLIGHT_MODE, read from the environment at import
    leads,      \* spark_leads: the rows in insert order
    \* ---- admin export ----
    csvIn,      \* a cell value of the leads export
    csvOut,     \* what _sanitize_csv returned for it
    csvDone     \* _sanitize_csv has been called

rlVars == <<windows, clock, rlLog>>
pfVars == <<pfIn, pfOut, pfDone>>
promptVars == <<promptIn, promptOut, promptDone>>
llmVars == <<llm>>

csvVars == <<csvIn, csvOut, csvDone>>

mainVars == <<convs, messages, tasks, utcnow, req, incLog, mode, leads,
              csvVars>>

vars == <<windows, clock, rlLog, pfIn, pfOut, pfDone,
          promptIn, promptOut, promptDone, llm,
          convs, messages, tasks, utcnow, req, incLog, mode, leads,
          csvIn, csvOut, csvDone>>

\* ---------------------------------------------------------------------
\* Universe
\* ---------------------------------------------------------------------
Clients == {"A", "B"}
IPs == {"ip1", "ip2"}

None == "None"

\* ---------------------------------------------------------------------
\* Bounds
\* ---------------------------------------------------------------------
MaxLimit == 2        \* largest rate_limit_rpm given to a client
MaxChecks == 5       \* check() calls made in a run, over all keys
MaxTurns == 2        \* max_turns of the clients
MaxTime == 2         \* the wall clock stops here
MaxDeltas == 1       \* deltas the primary model streams
MaxRows == 3         \* rows one vector-search RPC returns
MaxFields == 2       \* pieces of an orientation text
MaxLeads == 1        \* POST /spark/lead requests made in a run
MaxStored == 18      \* messages a conversation holds when a turn starts
MaxWritten == 2      \* turns counted when the last request is admitted
MaxComponents == 3   \* components of a list given to _trim_to_budget

\* ---------------------------------------------------------------------
\* Rate limiter (src/api/app/services/spark/rate_limiter.py)
\* ---------------------------------------------------------------------
WindowSeconds == 60

\* the clock advances by half windows and stops after two windows
TickLen == WindowSeconds \div 2
MaxClock == 2 * WindowSeconds

\* spark_clients.rate_limit_rpm of each client (SparkClient.rate_limit_rpm)
rpm == [c \in Clients |-> IF c = "A" THEN 1 ELSE MaxLimit]

\* what _get_client_ip can return: the peer's address or the first entry
\* of X-Forwarded-For, which is any text the caller sends
ForwardedIPs == IPs \cup {"admin"}

\* sha256(Authorization header).hexdigest()[:16] of the admin callers
TokenHashes == {"h1"}

admin_rate_limit_rpm == 60

\* the client_id _admin_rate_limit passes: f"admin:{token_hash}"
AdminClientId(token_hash) == "admin:" \o token_hash

\* the (client_id, ip) arguments check() is called with
WidgetCallers == Clients \X ForwardedIPs
AdminCallers == {<<AdminClientId(h), "admin">> : h \in TokenHashes}
Callers == WidgetCallers \cup AdminCallers

\* mutant: the key leaves the address out
RateKeyClientOnly(client_id, ip) == client_id \o ":"

\* key = f"{client_id}:{ip}"
RateKey(client_id, ip) == client_id \o ":" \o ip

Keys == {RateKey(a[1], a[2]) : a \in Callers}

\* mutant: an entry is dropped once it is half a window old
PruneHalfWindow(timestamps, now) ==
    SelectSeq(timestamps, LAMBDA t : t > now - TickLen)

\* mutant: an entry exactly 60 s old is kept
PruneKeepsBoundary(timestamps, now) ==
    SelectSeq(timestamps, LAMBDA t : t >= now - WindowSeconds)

\* [t for t in timestamps if t > window_start]
Prune(timestamps, now) ==
    SelectSeq(timestamps, LAMBDA t : t > now - WindowSeconds)

\* mutant: off by one, admits limit + 1 requests
CheckAllowedOffByOne(timestamps, now, rpm_limit) ==
    ~(Len(Prune(timestamps, now)) > rpm_limit)

CheckAllowed(timestamps, now, rpm_limit) ==
    ~(Len(Prune(timestamps, now)) >= rpm_limit)

\* mutant: a rejected call is recorded too
CheckWindowRecordsRejected(timestamps, now, rpm_limit) ==
    Append(Prune(timestamps, now), now)

\* self._windows[key] after check(): pruned, and now appended when the
\* call is admitted
CheckWindow(timestamps, now, rpm_limit) ==
    IF CheckAllowed(timestamps, now, rpm_limit)
    THEN Append(Prune(timestamps, now), now)
    ELSE Prune(timestamps, now)

RECURSIVE SumLen(_, _)
SumLen(f, S) ==
    IF S = {} THEN 0
    ELSE LET k == CHOOSE x \in S : TRUE
         IN Len(f[k]) + SumLen(f, S \ {k})

ChecksMade == SumLen(rlLog, Keys)

Reqs == {"r1", "r2"}

\* a nullable timestamp or number that is null
NullNum == -1

\* no request has arrived and the store is empty
\* no cell of an export is being written
CsvIdle ==
    /\ csvIn = <<>>
    /\ csvOut = <<>>
    /\ csvDone = FALSE

MainIdle ==
    /\ CsvIdle
    /\ convs = <<>>
    /\ messages = <<>>
    /\ tasks = <<>>
    /\ utcnow = 0
    /\ req = [r \in Reqs |-> [pc |-> "idle"]]
    /\ incLog = <<>>
    /\ mode = "signals"
    /\ leads = <<>>

RLIdle ==
    /\ windows = [k \in Keys |-> <<>>]
    /\ clock = 0
    /\ rlLog = [k \in Keys |-> <<>>]

PFIdle ==
    /\ pfIn = None
    /\ pfOut = None
    /\ pfDone = FALSE

PromptIdle ==
    /\ promptIn = None
    /\ promptOut = None
    /\ promptDone = FALSE

\* no call of the LLM service has been made
NoCall ==
    [pc |-> "idle", op |-> None, resolved |-> None,
     args |-> [messages |-> None, temperature |-> NullNum,
               max_tokens |-> NullNum],
     inner |-> "none", inner_model |-> None,
     attempts |-> <<>>, yielded |-> <<>>, outcome |-> None]

LlmIdle == llm = NoCall

RLInit ==
    /\ RLIdle
    /\ PFIdle
    /\ PromptIdle
    /\ LlmIdle
    /\ MainIdle

\* SparkRateLimiter.check(client_id, ip, rpm_limit); it has no await, so
\* it runs atomically on the event loop.
LimiterCheck(client_id, ip, rpm_limit) ==
    LET key == RateKey(client_id, ip)
        now == clock
    IN /\ ChecksMade < MaxChecks
       /\ windows' = [windows EXCEPT
              ![key] = CheckWindow(windows[key], now, rpm_limit)]
       /\ rlLog' = [rlLog EXCEPT
              ![key] = Append(@, [t |-> now,
                                  ok |-> CheckAllowed(windows[key], now,
                                                      rpm_limit)])]
       /\ UNCHANGED <<clock, pfVars, promptVars, llmVars, mainVars>>

\* spark_chat: limiter.check(str(client.id), ip, client.rate_limit_rpm)
Check(client_id, ip) == LimiterCheck(client_id, ip, rpm[client_id])

\* _admin_rate_limit:
\* limiter.check(f"admin:{token_hash}", "admin", admin_rate_limit_rpm)
AdminRateLimit(token_hash) ==
    LimiterCheck(AdminClientId(token_hash), "admin", admin_rate_limit_rpm)

\* time passes
Advance ==
    /\ clock + TickLen <= MaxClock
    /\ clock' = clock + TickLen
    /\ UNCHANGED <<windows, rlLog, pfVars, promptVars, llmVars, mainVars>>

RLNext ==
    \/ \E c \in Clients, ip \in IPs : Check(c, ip)
    \/ Advance

SpecRateLimiter == RLInit /\ [][RLNext]_vars

\* time passes, up to one whole window
AdvanceOneWindow ==
    /\ clock < WindowSeconds
    /\ Advance

\* the one limiter of the process, called by the widget endpoint from any
\* address and by the admin router
NextKeys ==
    \/ \E c \in Clients, ip \in ForwardedIPs : Check(c, ip)
    \/ \E h \in TokenHashes : AdminRateLimit(h)
    \/ AdvanceOneWindow

SpecKeys == RLInit /\ [][NextKeys]_vars

\* ---------------------------------------------------------------------
\* Preflight (src/api/app/services/spark/preflight.py)
\* ---------------------------------------------------------------------
\* JSON values are kept as strings: "true"/"false" for booleans, None for
\* null, Missing for a key the object does not have, "other" for a value
\* of another kind (a string that is no tag, a number, a list).
Missing == "Missing"

BoundaryTags == {"prompt_probing", "identity_breaking", "extraction_framing",
                 "boundary_erosion", "adversarial_stress"}

ConversationStates == {"active", "wrapping_up", "off_topic"}

\* What llm.complete + json.loads give a classifier branch:
\*   raise       llm.complete raised (transport, provider, timeout)
\*   unparsable  the text is not JSON (json.JSONDecodeError)
\*   nonobject   the text is JSON but not an object (parsed.get raises)
\*   object      a JSON object
BoundaryOutcomes ==
    {[kind |-> k, boundary_signal |-> Missing, terminate |-> Missing] :
        k \in {"raise", "unparsable", "nonobject"}}
    \cup
    {[kind |-> "object", boundary_signal |-> b, terminate |-> t] :
        b \in BoundaryTags \cup {None, Missing, "other"},
        t \in {"true", "false", Missing, "other"}}

StateOutcomes ==
    {[kind |-> k, conversation_state |-> Missing] :
        k \in {"raise", "unparsable", "nonobject"}}
    \cup
    {[kind |-> "object", conversation_state |-> c] :
        c \in ConversationStates \cup {Missing, None, "other"}}

\* similarity of a row, in tenths; the RPCs return rows at or above
\* spark_doc_match_threshold (0.3), best first
Sims == {3, 5, 8}

RECURSIVE NonIncreasing(_)
NonIncreasing(q) ==
    \A i \in 1..(Len(q) - 1) : q[i] >= q[i + 1]

SimLists ==
    {q \in UNION {[1..n -> Sims] : n \in 0..MaxRows} : NonIncreasing(q)}

\* the rows of one RPC result
Rows(src, sims) == [i \in 1..Len(sims) |-> [src |-> src, pos |-> i, sim |-> sims[i]]]

RetrievalOutcomes ==
    {[kind |-> k, knowledge |-> <<>>, docs |-> <<>>] :
        k \in {"embed_raise", "rpc_raise"}}
    \cup
    {[kind |-> "ok", knowledge |-> Rows("knowledge", a), docs |-> Rows("docs", b)] :
        a \in SimLists, b \in SimLists}

\* settings.spark_max_doc_chunks
spark_max_doc_chunks == 5

\* mutant: a classifier failure is not caught by the boundary branch
PassBoundaryNoCatch(out) ==
    IF out.kind = "object"
    THEN [raised |-> FALSE,
          boundary_signal |-> IF out.boundary_signal = Missing
                              THEN None ELSE out.boundary_signal,
          terminate |-> IF out.terminate = Missing
                        THEN "false" ELSE out.terminate]
    ELSE [raised |-> TRUE, boundary_signal |-> None, terminate |-> "false"]

\* _pass_boundary: parsed.get("boundary_signal"), parsed.get("terminate",
\* False); both except clauses return the safe default
PassBoundary(out) ==
    IF out.kind = "object"
    THEN [raised |-> FALSE,
          boundary_signal |-> IF out.boundary_signal = Missing
                              THEN None ELSE out.boundary_signal,
          terminate |-> IF out.terminate = Missing
                        THEN "false" ELSE out.terminate]
    ELSE [raised |-> FALSE, boundary_signal |-> None, terminate |-> "false"]

\* _pass_state: parsed.get("conversation_state", "active")
PassState(out) ==
    IF out.kind = "object"
    THEN [conversation_state |-> IF out.conversation_state = Missing
                                 THEN "active" ELSE out.conversation_state]
    ELSE [conversation_state |-> "active"]

\* list.sort(key=similarity, reverse=True) is stable: a row goes after
\* the rows already placed whose similarity is not lower
RECURSIVE InsertDesc(_, _)
InsertDesc(sorted, row) ==
    IF sorted = <<>> THEN <<row>>
    ELSE IF Head(sorted).sim >= row.sim
         THEN <<Head(sorted)>> \o InsertDesc(Tail(sorted), row)
         ELSE <<row>> \o sorted

RECURSIVE SortDesc(_)
SortDesc(rows) ==
    IF rows = <<>> THEN <<>>
    ELSE InsertDesc(SortDesc(SubSeq(rows, 1, Len(rows) - 1)), rows[Len(rows)])

\* mutant: nothing is cut off
TakeAll(q, n) == q

\* q[:n]
Take(q, n) == SubSeq(q, 1, IF Len(q) < n THEN Len(q) ELSE n)

\* _branch_retrieval: merge both results, sort, keep the first k; any
\* exception gives []
BranchRetrieval(out) ==
    IF out.kind = "ok"
    THEN Take(SortDesc(out.knowledge \o out.docs), spark_max_doc_chunks)
    ELSE <<>>

\* PreflightResult(...): conversation_state is declared str
\* (models/spark.py), so a null there fails validation
PreflightResultValid(state_result) ==
    state_result.conversation_state # None

\* a result type that takes any value in its two boundary fields
PreflightResultFieldsAny(boundary_result) == TRUE

\* PreflightResult(boundary_signal=..., terminate=...): the two fields as
\* the specification declares them, boundary_signal null or one of the
\* five tags and terminate a boolean; any other value fails validation
PreflightResultFields(boundary_result) ==
    /\ boundary_result.boundary_signal \in BoundaryTags \cup {None}
    /\ boundary_result.terminate \in {"true", "false"}

\* run_preflight: gather the three branches, in_scope = len(chunks) > 0
RunPreflight(in) ==
    LET boundary_result == PassBoundary(in.boundary)
        state_result == PassState(in.state)
        chunks == BranchRetrieval(in.retrieval)
    IN IF \/ boundary_result.raised
          \/ ~PreflightResultValid(state_result)
          \/ ~PreflightResultFields(boundary_result)
       THEN [raised |-> TRUE, boundary_signal |-> None, terminate |-> "false",
             in_scope |-> FALSE, retrieved_chunks |-> <<>>,
             conversation_state |-> "active"]
       ELSE [raised |-> FALSE,
             boundary_signal |-> boundary_result.boundary_signal,
             terminate |-> boundary_result.terminate,
             in_scope |-> Len(chunks) > 0,
             retrieved_chunks |-> chunks,
             conversation_state |-> state_result.conversation_state]

PreflightInputs ==
    [boundary : BoundaryOutcomes, state : StateOutcomes,
     retrieval : RetrievalOutcomes]

PFInit ==
    /\ RLIdle
    /\ PromptIdle
    /\ LlmIdle
    /\ MainIdle
    /\ pfIn \in PreflightInputs
    /\ pfOut = None
    /\ pfDone = FALSE

\* one call of run_preflight
CallRunPreflight ==
    /\ ~pfDone
    /\ pfDone' = TRUE
    /\ pfOut' = RunPreflight(pfIn)
    /\ UNCHANGED <<pfIn, rlVars, promptVars, llmVars, mainVars>>

PFNext == CallRunPreflight

SpecPreflight == PFInit /\ [][PFNext]_vars

\* ---------------------------------------------------------------------
\* Prompt assembly (src/api/app/services/spark/settling.py)
\* A text is given by its length in characters and the positions (0-based
\* index of the first character) of its paragraph breaks "\n\n" and of
\* its sentence ends ". ", "? ", "! ", ".\n".
\* ---------------------------------------------------------------------
TOKEN_BUDGET == 12000
CHARS_PER_TOKEN == 4

P1_NEVER_TRIM == 1
P2_FIXED == 2
P3_REDUCE == 3
P4_TRIM_FIRST == 4

\* _estimate_tokens: len(text) // 4
EstimateTokens(len) == len \div CHARS_PER_TOKEN

\* candidate.rfind(mark) for a two-character mark, candidate being
\* text[:char_budget]: the last position where the mark fits, or -1
RFind(positions, char_budget) ==
    LET fit == {p \in positions : p + 2 <= char_budget}
    IN IF fit = {} THEN -1
       ELSE CHOOSE p \in fit : \A q \in fit : q <= p

\* mutant: the text is cut at char_budget whatever its boundaries
TrimComponentHard(text, char_budget) ==
    IF text.len <= char_budget THEN text.len ELSE char_budget + 3

\* _trim_component: the length of the text it returns
TrimComponent(text, char_budget) ==
    IF text.len <= char_budget THEN text.len
    ELSE LET para_idx == RFind(text.para, char_budget)
             best_sent == RFind(text.sent, char_budget)
         IN IF para_idx > 0 THEN para_idx
            ELSE IF best_sent > 0 THEN best_sent + 1
            ELSE char_budget + 3

RECURSIVE SumTokens(_, _)
SumTokens(result, names) ==
    IF names = {} THEN 0
    ELSE LET n == CHOOSE x \in names : TRUE
         IN EstimateTokens(result[n]) + SumTokens(result, names \ {n})

\* _total_tokens: sum(_estimate_tokens(c) for c in result.values())
TotalTokens(result) == SumTokens(result, DOMAIN result)

\* one of the two loops of _trim_to_budget, from component i on: every
\* non-empty component of the tier is cut to half, then to a quarter,
\* of its original length until the total fits
RECURSIVE TrimTier(_, _, _, _)
TrimTier(components, result, tier, i) ==
    IF i > Len(components) THEN [result |-> result, fits |-> FALSE]
    ELSE LET c == components[i]
             half == [result EXCEPT
                        ![c.name] = TrimComponent(c.text, c.text.len \div 2)]
             quarter == [result EXCEPT
                        ![c.name] = TrimComponent(c.text, c.text.len \div 4)]
         IN IF c.priority # tier \/ c.text.len = 0
            THEN TrimTier(components, result, tier, i + 1)
            ELSE IF TotalTokens(half) <= TOKEN_BUDGET
            THEN [result |-> half, fits |-> TRUE]
            ELSE IF TotalTokens(quarter) <= TOKEN_BUDGET
            THEN [result |-> quarter, fits |-> TRUE]
            ELSE TrimTier(components, quarter, tier, i + 1)

\* mutant: the P2 components are cut as well when P4 and P3 do not suffice
TrimToBudgetAllTiers(components) ==
    LET result == [n \in {components[i].name : i \in 1..Len(components)} |->
                     components[CHOOSE i \in 1..Len(components) :
                         /\ components[i].name = n
                         /\ \A j \in (i + 1)..Len(components) :
                               components[j].name # n].text.len]
        p4 == TrimTier(components, result, P4_TRIM_FIRST, 1)
        p3 == TrimTier(components, p4.result, P3_REDUCE, 1)
        p2 == TrimTier(components, p3.result, P2_FIXED, 1)
    IN IF TotalTokens(result) <= TOKEN_BUDGET
       THEN [result |-> result, warned |-> FALSE]
       ELSE IF p4.fits THEN [result |-> p4.result, warned |-> FALSE]
       ELSE IF p3.fits THEN [result |-> p3.result, warned |-> FALSE]
       ELSE [result |-> p2.result,
             warned |-> TotalTokens(p2.result) > TOKEN_BUDGET]

\* _trim_to_budget: name -> length of the (possibly trimmed) content,
\* and whether the over-budget warning was logged
TrimToBudget(components) ==
    LET result == [n \in {components[i].name : i \in 1..Len(components)} |->
                     components[CHOOSE i \in 1..Len(components) :
                         /\ components[i].name = n
                         /\ \A j \in (i + 1)..Len(components) :
                               components[j].name # n].text.len]
                  \* dict comprehension: the last entry of a name wins
        p4 == TrimTier(components, result, P4_TRIM_FIRST, 1)
        p3 == TrimTier(components, p4.result, P3_REDUCE, 1)
    IN IF TotalTokens(result) <= TOKEN_BUDGET
       THEN [result |-> result, warned |-> FALSE]
       ELSE IF p4.fits THEN [result |-> p4.result, warned |-> FALSE]
       ELSE IF p3.fits THEN [result |-> p3.result, warned |-> FALSE]
       ELSE [result |-> p3.result,
             warned |-> TotalTokens(p3.result) > TOKEN_BUDGET]

\* the budget_components list of build_system_prompt
BudgetComponents(in) ==
    <<[name |-> "orientation", priority |-> P1_NEVER_TRIM,
       text |-> in.template],
      [name |-> "doc_context", priority |-> P4_TRIM_FIRST,
       text |-> in.doc_context]>>
    \o (IF in.custom_instructions.len > 0
        THEN <<[name |-> "custom_instructions", priority |-> P2_FIXED,
                text |-> in.custom_instructions]>>
        ELSE <<>>)

\* the length of orientation_final.format_map(format_vars): the template
\* names each placeholder once; its placeholder markers take in.markers
\* characters, the values other than doc_context and custom_instructions
\* take in.rest characters
PromptLen(in, orientation_len, doc_context_len) ==
    orientation_len - in.markers + in.rest + doc_context_len
        + in.custom_instructions.len

\* build_system_prompt, for a template whose placeholders are valid
BuildSystemPrompt(in) ==
    LET trimmed == TrimToBudget(BudgetComponents(in))
    IN [prompt_len |-> PromptLen(in, trimmed.result["orientation"],
                                 trimmed.result["doc_context"]),
        orientation_len |-> trimmed.result["orientation"],
        doc_context_len |-> trimmed.result["doc_context"],
        custom_instructions_len |-> in.custom_instructions.len,
        warned |-> trimmed.warned]

Text(len, para, sent) == [len |-> len, para |-> para, sent |-> sent]

\* templates, retrieved context, custom instructions and other values
\* around the budget of 48,000 characters
PromptInputs ==
    [template : {Text(n, {}, {}) : n \in {400, 44000, 52000}},
     markers : {100},
     rest : {300, 1200},
     doc_context :
        {Text(n, para, sent) :
            n \in {200, 8000, 20000, 40000},
            para \in {{}, {150}, {4500, 15000}},
            sent \in {{}, {99, 1999}}},
     custom_instructions : {Text(n, {}, {}) : n \in {0, 2000, 8000}}]

PromptInit ==
    /\ RLIdle
    /\ PFIdle
    /\ LlmIdle
    /\ MainIdle
    /\ promptIn \in PromptInputs
    /\ promptOut = None
    /\ promptDone = FALSE

\* one call of build_system_prompt
CallBuildSystemPrompt ==
    /\ ~promptDone
    /\ promptDone' = TRUE
    /\ promptOut' = BuildSystemPrompt(promptIn)
    /\ UNCHANGED <<promptIn, rlVars, pfVars, llmVars, mainVars>>

PromptNext == CallBuildSystemPrompt

SpecPrompt == PromptInit /\ [][PromptNext]_vars

\* the names of the components of a list, one per position: the dict
\* _trim_to_budget returns is keyed by them
ComponentNames ==
    <<"orientation", "procedures", "doc_context", "custom_instructions",
      "voice_examples">>

\* contents from empty to well over the budget of 48,000 characters,
\* some with a paragraph break or sentence ends to cut at
ComponentTexts ==
    {Text(n, {}, {}) : n \in {0, 400, 20000, 60000}}
    \cup {Text(28000, {6000, 13000}, {}), Text(28000, {}, {99, 9000})}

Priorities == {P1_NEVER_TRIM, P2_FIXED, P3_REDUCE, P4_TRIM_FIRST}

\* a list of (name, priority, content) of one to MaxComponents components
TrimInit ==
    /\ RLIdle
    /\ PFIdle
    /\ LlmIdle
    /\ MainIdle
    /\ \E n \in 1..MaxComponents :
          \E pr \in [1..n -> Priorities], tx \in [1..n -> ComponentTexts] :
             promptIn = [i \in 1..n |-> [name |-> ComponentNames[i],
                                         priority |-> pr[i],
                                         text |-> tx[i]]]
    /\ promptOut = None
    /\ promptDone = FALSE

\* one call of _trim_to_budget with the list promptIn
CallTrimToBudget ==
    /\ ~promptDone
    /\ promptDone' = TRUE
    /\ promptOut' = TrimToBudget(promptIn)
    /\ UNCHANGED <<promptIn, rlVars, pfVars, llmVars, mainVars>>

TrimNext == CallTrimToBudget

SpecTrim == TrimInit /\ [][TrimNext]_vars

\* ---------------------------------------------------------------------
\* Template fill (build_system_prompt, str.format_map)
\* ---------------------------------------------------------------------
\* The pieces an orientation text is made of, as str.format_map reads
\* them from left to right:
\*   literal       text without braces
\*   escaped       {{ or }}
\*   known         {company_name}, a key of format_vars
\*   unknown       {unknown_placeholder}, no key of format_vars
\*   bare_brace    a single } or an unclosed {
\*   positional    {0} or {}
\*   bad_spec      {company_name:d} or {company_name!z}
\*   index_range   {unknown_placeholder[0]}, an index into the empty string
\*   attribute     {company.name}, an attribute a str does not have
\*   key_index     {company_name[key]}, a non-integer index into a str
Pieces == {"literal", "escaped", "known", "unknown", "bare_brace",
           "positional", "bad_spec", "index_range", "attribute", "key_index"}

\* what format_map(defaultdict(str, format_vars)) does with one piece:
\* the text it produces, or the exception it raises
FormatPiece(piece) ==
    CASE piece = "literal" -> [raises |-> None, text |-> "text"]
      [] piece = "escaped" -> [raises |-> None, text |-> "{"]
      [] piece = "known" -> [raises |-> None, text |-> "value"]
      [] piece = "unknown" -> [raises |-> None, text |-> ""]
      [] piece = "bare_brace" -> [raises |-> "ValueError", text |-> ""]
      [] piece = "positional" -> [raises |-> "ValueError", text |-> ""]
      [] piece = "bad_spec" -> [raises |-> "ValueError", text |-> ""]
      [] piece = "index_range" -> [raises |-> "IndexError", text |-> ""]
      [] piece = "attribute" -> [raises |-> "AttributeError", text |-> ""]
      [] piece = "key_index" -> [raises |-> "TypeError", text |-> ""]

\* str.format_map: the pieces are formatted in order; the first one that
\* raises ends the call
RECURSIVE FormatMap(_)
FormatMap(template) ==
    IF template = <<>> THEN [raises |-> None, text |-> <<>>]
    ELSE LET first == FormatPiece(Head(template))
             rest == FormatMap(Tail(template))
         IN IF first.raises # None THEN [raises |-> first.raises, text |-> <<>>]
            ELSE IF rest.raises # None THEN rest
            ELSE [raises |-> None, text |-> <<first.text>> \o rest.text]

\* orientations/core.md: literal text and placeholders of format_vars
CoreTemplate == <<"literal", "known", "literal", "known">>

\* the exceptions the fill's except clause names
Caught == {"ValueError", "IndexError"}

\* build_system_prompt, the fill: format_map on the orientation; on
\* ValueError or IndexError the core template is filled instead; any
\* other exception leaves build_system_prompt
FillTemplate(orientation) ==
    LET filled == FormatMap(orientation)
    IN IF filled.raises = None
       THEN [raises |-> None, prompt |-> filled.text, fell_back |-> FALSE]
       ELSE IF filled.raises \in Caught
       THEN [raises |-> FormatMap(CoreTemplate).raises,
             prompt |-> FormatMap(CoreTemplate).text, fell_back |-> TRUE]
       ELSE [raises |-> filled.raises, prompt |-> <<>>, fell_back |-> FALSE]

\* the orientation texts a tenant can store: any pieces in any order
RECURSIVE Templates(_)
Templates(n) ==
    IF n = 0 THEN {<<>>}
    ELSE Templates(n - 1)
         \cup {Append(t, p) : t \in Templates(n - 1), p \in Pieces}

FillInit ==
    /\ RLIdle
    /\ PFIdle
    /\ LlmIdle
    /\ MainIdle
    /\ promptIn \in Templates(MaxFields) \ {<<>>}
    /\ promptOut = None
    /\ promptDone = FALSE

\* one call of build_system_prompt with the orientation text promptIn
CallFillTemplate ==
    /\ ~promptDone
    /\ promptDone' = TRUE
    /\ promptOut' = FillTemplate(promptIn)
    /\ UNCHANGED <<promptIn, rlVars, pfVars, llmVars, mainVars>>

FillNext == CallFillTemplate

SpecFill == FillInit /\ [][FillNext]_vars

\* ---------------------------------------------------------------------
\* Leads export (src/api/app/routers/admin.py, _sanitize_csv)
\* ---------------------------------------------------------------------
\* the longest cell value written
MaxCell == 3

CSV_INJECTION_CHARS == {"=", "+", "-", "@", "\t", "\r"}

\* the characters of a cell: the six above, the quote, and others
Chars == CSV_INJECTION_CHARS \cup {"'", "a", "1", " ", ","}

\* the cell values of up to n characters, as sequences of characters
RECURSIVE Cells(_)
Cells(n) ==
    IF n = 0 THEN {<<>>}
    ELSE Cells(n - 1) \cup {Append(v, c) : v \in Cells(n - 1), c \in Chars}

\* a guard that lets the control characters through
SanitizeCsvPrintableOnly(value) ==
    IF value # <<>> /\ value[1] \in {"=", "+", "-", "@"}
    THEN <<"'">> \o value
    ELSE value

\* _sanitize_csv: f"'{value}" when value is non-empty and value[0] is in
\* _CSV_INJECTION_CHARS, else value
SanitizeCsv(value) ==
    IF value # <<>> /\ value[1] \in CSV_INJECTION_CHARS
    THEN <<"'">> \o value
    ELSE value

CsvInit ==
    /\ RLIdle
    /\ PFIdle
    /\ PromptIdle
    /\ LlmIdle
    /\ convs = <<>>
    /\ messages = <<>>
    /\ tasks = <<>>
    /\ utcnow = 0
    /\ req = [r \in Reqs |-> [pc |-> "idle"]]
    /\ incLog = <<>>
    /\ mode = "signals"
    /\ leads = <<>>
    /\ csvIn \in Cells(MaxCell)
    /\ csvOut = <<>>
    /\ csvDone = FALSE

\* one cell of the export: _sanitize_csv(csvIn)
CallSanitizeCsv ==
    /\ ~csvDone
    /\ csvDone' = TRUE
    /\ csvOut' = SanitizeCsv(csvIn)
    /\ UNCHANGED <<csvIn, rlVars, pfVars, promptVars, llmVars,
                   convs, messages, tasks, utcnow, req, incLog, mode, leads>>

CsvNext == CallSanitizeCsv

SpecCsv == CsvInit /\ [][CsvNext]_vars

\* ---------------------------------------------------------------------
\* LLM service (src/api/app/services/llm.py)
\* ---------------------------------------------------------------------
\* settings.spark_primary_model, spark_fallback_model, spark_preflight_model
spark_primary_model == "gemini/gemini-3-flash-preview"
spark_fallback_model == "moonshot/kimi-k2.5"
spark_preflight_model == "groq/llama-3.1-8b-instant"

\* a fallback chain that answers for every model
GetFallbackForAnyModel(model) == spark_fallback_model

\* _get_fallback
GetFallback(model) ==
    IF model = spark_primary_model THEN spark_fallback_model ELSE None

\* model or settings.spark_primary_model
Resolve(model) == IF model = None THEN spark_primary_model ELSE model

\* one litellm.acompletion call: the model and the arguments it is given
Attempt(model, args) == [model |-> model, args |-> args, result |-> "pending"]

\* the result of the latest attempt becomes known
Settle(attempts, result) ==
    [attempts EXCEPT ![Len(attempts)].result = result]

\* the calls made: by the orchestrator (stream, primary by default), by
\* the preflight classifier (complete on the preflight model), and
\* complete / stream on the other models
LlmCalls ==
    [op : {"complete", "stream"},
     model : {None, spark_primary_model, spark_fallback_model,
              spark_preflight_model},
     args : [messages : {"m1", "m2"}, temperature : {0, 1},
             max_tokens : {NullNum, 1024}]]

\* complete(...) or stream(...) is called: the first acompletion
Call ==
    /\ llm.pc = "idle"
    /\ \E c \in LlmCalls :
         llm' = [llm EXCEPT
             !.pc = c.op, !.op = c.op, !.resolved = Resolve(c.model),
             !.args = c.args,
             !.attempts = <<Attempt(Resolve(c.model), c.args)>>]
    /\ UNCHANGED <<rlVars, pfVars, promptVars, mainVars>>

\* complete: the first acompletion returns
CompleteOk ==
    /\ llm.pc = "complete"
    /\ llm' = [llm EXCEPT !.pc = "over", !.outcome = "returned",
                          !.attempts = Settle(@, "ok")]
    /\ UNCHANGED <<rlVars, pfVars, promptVars, mainVars>>

\* complete: the first acompletion raises; with a fallback model the
\* second acompletion is made with the same arguments, without one the
\* exception is re-raised
CompleteFail ==
    /\ llm.pc = "complete"
    /\ LET fallback == GetFallback(llm.resolved)
           failed == Settle(llm.attempts, "failed")
       IN llm' = IF fallback # None
                 THEN [llm EXCEPT !.pc = "complete_fallback",
                          !.attempts = Append(failed, Attempt(fallback, llm.args))]
                 ELSE [llm EXCEPT !.pc = "over", !.outcome = "raised",
                          !.attempts = failed]
    /\ UNCHANGED <<rlVars, pfVars, promptVars, mainVars>>

\* complete: the fallback acompletion returns
CompleteFallbackOk ==
    /\ llm.pc = "complete_fallback"
    /\ llm' = [llm EXCEPT !.pc = "over", !.outcome = "returned",
                          !.attempts = Settle(@, "ok")]
    /\ UNCHANGED <<rlVars, pfVars, promptVars, mainVars>>

\* complete: the fallback acompletion raises too; the first exception is
\* re-raised
CompleteFallbackFail ==
    /\ llm.pc = "complete_fallback"
    /\ llm' = [llm EXCEPT !.pc = "over", !.outcome = "raised",
                          !.attempts = Settle(@, "failed")]
    /\ UNCHANGED <<rlVars, pfVars, promptVars, mainVars>>

\* stream: a chunk with content is yielded
LlmStreamDelta ==
    /\ llm.pc = "stream"
    /\ Len(llm.yielded) < MaxDeltas
    /\ llm' = [llm EXCEPT !.yielded = Append(@, llm.resolved)]
    /\ UNCHANGED <<rlVars, pfVars, promptVars, mainVars>>

\* stream: the chunks are exhausted
LlmStreamEnd ==
    /\ llm.pc = "stream"
    /\ llm' = [llm EXCEPT !.pc = "over", !.outcome = "returned",
                          !.attempts = Settle(@, "ok")]
    /\ UNCHANGED <<rlVars, pfVars, promptVars, mainVars>>

\* stream: acompletion or the chunk iteration raises; with a fallback
\* model, complete(model=fallback) is called with the same arguments,
\* without one the exception is re-raised
LlmStreamFail ==
    /\ llm.pc = "stream"
    /\ LET fallback == GetFallback(llm.resolved)
           failed == Settle(llm.attempts, "failed")
       IN llm' = IF fallback # None
                 THEN [llm EXCEPT !.pc = "stream_fallback",
                          !.inner = "complete", !.inner_model = fallback,
                          !.attempts = Append(failed, Attempt(fallback, llm.args))]
                 ELSE [llm EXCEPT !.pc = "over", !.outcome = "raised",
                          !.attempts = failed]
    /\ UNCHANGED <<rlVars, pfVars, promptVars, mainVars>>

\* complete, called by stream: its first acompletion returns; a non-empty
\* result is yielded and stream returns
InnerCompleteOk ==
    /\ llm.pc = "stream_fallback"
    /\ llm.inner = "complete"
    /\ \E empty \in BOOLEAN :
         llm' = [llm EXCEPT !.pc = "over", !.outcome = "returned",
                    !.inner = "returned",
                    !.attempts = Settle(@, "ok"),
                    !.yielded = IF empty THEN @ ELSE Append(@, llm.inner_model)]
    /\ UNCHANGED <<rlVars, pfVars, promptVars, mainVars>>

\* complete, called by stream: its first acompletion raises; complete
\* looks for a fallback of its own model and, finding none, re-raises;
\* stream swallows that and re-raises the first exception
InnerCompleteFail ==
    /\ llm.pc = "stream_fallback"
    /\ llm.inner = "complete"
    /\ LET fallback == GetFallback(llm.inner_model)
           failed == Settle(llm.attempts, "failed")
       IN llm' = IF fallback # None
                 THEN [llm EXCEPT !.inner = "complete_fallback",
                          !.attempts = Append(failed, Attempt(fallback, llm.args))]
                 ELSE [llm EXCEPT !.pc = "over", !.outcome = "raised",
                          !.inner = "raised", !.attempts = failed]
    /\ UNCHANGED <<rlVars, pfVars, promptVars, mainVars>>

LlmInit ==
    /\ RLIdle
    /\ PFIdle
    /\ PromptIdle
    /\ MainIdle
    /\ LlmIdle

LlmNext ==
    \/ Call
    \/ CompleteOk
    \/ CompleteFail
    \/ CompleteFallbackOk
    \/ CompleteFallbackFail
    \/ LlmStreamDelta
    \/ LlmStreamEnd
    \/ LlmStreamFail
    \/ InnerCompleteOk
    \/ InnerCompleteFail

SpecLlm == LlmInit /\ [][LlmNext]_vars

\* ---------------------------------------------------------------------
\* Session store (src/app/services/spark/session.py)
\* ---------------------------------------------------------------------
\* clients whose conversations are long enough to wind down
LongClients == {"C", "D"}

\* spark_clients.max_turns of each client (SparkClient.max_turns)
max_turns ==
    [c \in Clients \cup LongClients |->
        CASE c = "A" -> MaxTurns
          [] c = "B" -> 1
          [] c = "C" -> 6
          [] c = "D" -> 10]

\* settings.spark_session_timeout_minutes, in ticks
SessionTimeout == 1

\* settings.spark_context_turns
spark_context_turns == 8

\* the row create_session inserts; the session token of a conversation
\* is secrets.token_urlsafe(32), unique, and is written as the row's id
NewRow(client_id, ip_address, fingerprint, t) ==
    [client_id |-> client_id,
     ip_address |-> ip_address,
     turn_count |-> 0,
     state |-> "active",
     outcome |-> None,
     ended_at |-> NullNum,
     boundary_signals_fired |-> 0,
     expires_at |-> t + SessionTimeout]

\* select * where session_token = token and state = 'active' limit 1
ActiveByToken(cs, token) ==
    {i \in 1..Len(cs) : i = token /\ cs[i].state = "active"}

\* mutant: the IP binding check is skipped
GetSessionNoIpCheck(cs, session_token, ip_address, t) ==
    IF ActiveByToken(cs, session_token) = {}
    THEN [kind |-> "none", id |-> 0]
    ELSE LET id == CHOOSE i \in ActiveByToken(cs, session_token) : TRUE
         IN IF t > cs[id].expires_at
            THEN [kind |-> "expired", id |-> id]
            ELSE [kind |-> "ok", id |-> id]

\* get_session up to its return or its expiry update: the row it
\* resolves, or why it resolves none
GetSessionLookup(cs, session_token, ip_address, t) ==
    IF ActiveByToken(cs, session_token) = {}
    THEN [kind |-> "none", id |-> 0]
    ELSE LET id == CHOOSE i \in ActiveByToken(cs, session_token) : TRUE
         IN IF cs[id].ip_address # ip_address
            THEN [kind |-> "ip_mismatch", id |-> 0]
            ELSE IF t > cs[id].expires_at
                 THEN [kind |-> "expired", id |-> id]
                 ELSE [kind |-> "ok", id |-> id]

\* the update get_session issues for an expired row:
\* update({"state": "expired"}).eq("id", row["id"])
MarkExpiredRow(row) == [row EXCEPT !.state = "expired"]

\* end_session: update({"state": state, "updated_at": now}).eq("id", id).
\* The function has no outcome parameter and writes neither outcome nor
\* ended_at; the outcome the orchestrator passes is not stored.
EndSessionRow(row, state, outcome) == [row EXCEPT !.state = state]

\* store_message: the row inserted into spark_messages
MessageRow(role, content) == [role |-> role, content |-> content]

\* get_history: the last 2 * limit rows, oldest first
GetHistory(msgs) ==
    IF Len(msgs) <= 2 * spark_context_turns THEN msgs
    ELSE SubSeq(msgs, Len(msgs) - 2 * spark_context_turns + 1, Len(msgs))

\* ---------------------------------------------------------------------
\* Classifier prompts (preflight.py _pass_boundary, _pass_state, called
\* by process_message with the history it read)
\* ---------------------------------------------------------------------
\* history=None, and a history list
NoHistory == [present |-> FALSE, rows |-> <<>>]
SomeHistory(rows) == [present |-> TRUE, rows |-> rows]

\* [{"role": m["role"], "content": m["content"]} for m in history]
HistoryDicts(rows) ==
    [i \in 1..Len(rows) |-> [role |-> rows[i].role,
                             content |-> rows[i].content]]

\* history=history_dicts if prior_signals > 0 else None
HistoryArg(history_dicts, prior_signals) ==
    IF prior_signals > 0 THEN SomeHistory(history_dicts) ELSE NoHistory

\* mutant: the whole history that was read
WholeHistory(history) == history

\* history[-10:]
LastTen(history) ==
    IF Len(history) <= 10 THEN history
    ELSE SubSeq(history, Len(history) - 9, Len(history))

\* the lines of history_section, one f"{role}: {content}" per message
HistorySection(history, prior_signals) ==
    IF prior_signals > 0 /\ history.present /\ history.rows # <<>>
    THEN [i \in 1..Len(LastTen(history.rows)) |->
             [role |-> LastTen(history.rows)[i].role,
              content |-> LastTen(history.rows)[i].content]]
    ELSE <<>>

\* _BOUNDARY_PROMPT.format(message=message, history_section=...)
BoundaryPrompt(message, history, prior_signals) ==
    [history_section |-> HistorySection(history, prior_signals),
     message |-> message]

\* _STATE_PROMPT.format(message=message): the template has no other field
StatePrompt(message) == [history_section |-> <<>>, message |-> message]

NoPrompt == [history_section |-> <<>>, message |-> None]

\* the conversation's stored messages before the turn: user and assistant
\* rows in turn, numbered in the order they were stored
RECURSIVE StoredRows(_)
StoredRows(n) ==
    IF n = 0 THEN <<>>
    ELSE Append(StoredRows(n - 1),
                MessageRow(IF n % 2 = 1 THEN "user" ELSE "assistant", n))

\* a turn of a conversation with n stored messages and a boundary counter
HistoryInit ==
    /\ RLIdle
    /\ PromptIdle
    /\ LlmIdle
    /\ MainIdle
    /\ \E n \in 0..MaxStored, fired \in 0..2 :
          pfIn = [message |-> "message", stored |-> StoredRows(n),
                  boundary_signals_fired |-> fired]
    /\ pfOut = [pc |-> "get_boundary_count", prior_signals |-> NullNum,
                history_dicts |-> <<>>,
                boundary_prompt |-> NoPrompt, state_prompt |-> NoPrompt]
    /\ pfDone = FALSE

\* prior_signals = await _get_boundary_count(conversation_id): the stored
\* counter, or 0 when the fetch fails
FetchBoundaryCount ==
    /\ pfOut.pc = "get_boundary_count"
    /\ \E n \in {pfIn.boundary_signals_fired, 0} :
          pfOut' = [pfOut EXCEPT !.pc = "get_history", !.prior_signals = n]
    /\ UNCHANGED <<pfIn, pfDone, rlVars, promptVars, llmVars, mainVars>>

\* history = await get_history(...); history_dicts = [...]
FetchHistory ==
    /\ pfOut.pc = "get_history"
    /\ pfOut' = [pfOut EXCEPT
                    !.pc = "preflight",
                    !.history_dicts = HistoryDicts(GetHistory(pfIn.stored))]
    /\ UNCHANGED <<pfIn, pfDone, rlVars, promptVars, llmVars, mainVars>>

\* run_preflight(message, client_id, history=..., prior_signals=...): the
\* prompts _pass_boundary and _pass_state send
ClassifierPrompts ==
    /\ pfOut.pc = "preflight"
    /\ pfOut' = [pfOut EXCEPT
          !.pc = "done",
          !.boundary_prompt =
              BoundaryPrompt(pfIn.message,
                             HistoryArg(pfOut.history_dicts,
                                        pfOut.prior_signals),
                             pfOut.prior_signals),
          !.state_prompt = StatePrompt(pfIn.message)]
    /\ pfDone' = TRUE
    /\ UNCHANGED <<pfIn, rlVars, promptVars, llmVars, mainVars>>

HistoryNext ==
    \/ FetchBoundaryCount
    \/ FetchHistory
    \/ ClassifierPrompts

SpecHistory == HistoryInit /\ [][HistoryNext]_vars

\* ---------------------------------------------------------------------
\* Orchestrator (src/api/app/services/spark/core.py) and router
\* (src/api/app/routers/spark.py)
\* ---------------------------------------------------------------------
spark_min_turns_before_winddown == 5
spark_wind_down_turns == 3

\* a wind-down one turn late
ShouldWindDownLate(turn_count, maxTurns) ==
    /\ turn_count > spark_min_turns_before_winddown
    /\ maxTurns - turn_count <= spark_wind_down_turns

\* _should_wind_down
ShouldWindDown(turn_count, maxTurns) ==
    /\ turn_count >= spark_min_turns_before_winddown
    /\ maxTurns - turn_count <= spark_wind_down_turns

\* Python truthiness of a value the classifier gave
Truthy(v) == v \notin {"false", None, Missing, ""}

\* _sse_event(event, data)
Event(event, text, terminated, turns_remaining) ==
    [event |-> event, text |-> text, terminated |-> terminated,
     turns_remaining |-> turns_remaining, session_token |-> NullNum,
     conversation_id |-> NullNum]

\* mutant: a session event that names no session
SessionEventUnbound(session_token, turns_remaining) ==
    Event("session", "", FALSE, turns_remaining)

\* event_stream's first yield, from the session row: session["session_token"]
\* and str(conversation_id) = session["id"], here both the row's index
SessionEvent(session_token, turns_remaining) ==
    [Event("session", "", FALSE, turns_remaining)
        EXCEPT !.session_token = session_token,
               !.conversation_id = session_token]
TokenEvent(text) == Event("token", text, FALSE, NullNum)
WindDownEvent(turns_remaining) == Event("wind_down", "", FALSE, turns_remaining)
DoneEvent(turns_remaining) == Event("done", "", FALSE, turns_remaining)
DoneTerminated == Event("done", "", TRUE, NullNum)
DoneEmpty == Event("done", "", FALSE, NullNum)
ErrorEvent == Event("error", "", FALSE, NullNum)

NoPreflight ==
    [raised |-> FALSE, boundary_signal |-> None, terminate |-> "false",
     in_scope |-> FALSE, retrieved_chunks |-> <<>>,
     conversation_state |-> "active"]

\* the locals of a request that has not arrived
ReqIdle ==
    [pc |-> "idle", credential |-> None, status |-> 0,
     client |-> None, ip |-> None, token |-> 0,
     lookup |-> None, session |-> 0, turn_count |-> 0, events |-> <<>>,
     rows_at_entry |-> NullNum,
     prior_signals |-> 0, history |-> <<>>, preflight |-> NoPreflight,
     launched |-> 0,
     new_expires |-> NullNum, read_count |-> NullNum,
     new_turn_count |-> NullNum,
     prompt_calls |-> 0, prompt_boundary_signal |-> None,
     full_response |-> <<>>, stream_calls |-> 0,
     user_stored_at |-> NullNum, assistant_stored_at |-> NullNum,
     pulled_at_cancel |-> NullNum,
     failed |-> None]

\* the classifier and retrieval outcomes the requests meet
MainPreflightInputs ==
    {[boundary |-> [kind |-> "object", boundary_signal |-> None,
                    terminate |-> "false"],
      state |-> [kind |-> "object", conversation_state |-> "active"],
      retrieval |-> [kind |-> "ok", knowledge |-> Rows("knowledge", <<8>>),
                     docs |-> <<>>]],
     [boundary |-> [kind |-> "object", boundary_signal |-> "prompt_probing",
                    terminate |-> "false"],
      state |-> [kind |-> "raise", conversation_state |-> Missing],
      retrieval |-> [kind |-> "rpc_raise", knowledge |-> <<>>, docs |-> <<>>]],
     [boundary |-> [kind |-> "object", boundary_signal |-> "adversarial_stress",
                    terminate |-> "true"],
      state |-> [kind |-> "object", conversation_state |-> "off_topic"],
      retrieval |-> [kind |-> "ok", knowledge |-> <<>>, docs |-> <<>>]],
     [boundary |-> [kind |-> "object", boundary_signal |-> None,
                    terminate |-> "false"],
      state |-> [kind |-> "object", conversation_state |-> None],
      retrieval |-> [kind |-> "ok", knowledge |-> <<>>, docs |-> <<>>]]}

\* the classifier outcomes of a turn under either SPARK_PREFLIGHT_MODE:
\* gate mode also sees a firm-tier tag that comes without terminate
ModePreflightInputs ==
    IF mode = "gate"
    THEN MainPreflightInputs \cup
         {[boundary |-> [kind |-> "object",
                         boundary_signal |-> "extraction_framing",
                         terminate |-> "false"],
           state |-> [kind |-> "object", conversation_state |-> "active"],
           retrieval |-> [kind |-> "ok", knowledge |-> <<>>, docs |-> <<>>]]}
    ELSE MainPreflightInputs

\* the store is empty and no request has arrived
StoreInit ==
    /\ RLIdle
    /\ PFIdle
    /\ PromptIdle
    /\ LlmIdle
    /\ convs = <<>>
    /\ messages = <<>>
    /\ tasks = <<>>
    /\ utcnow = 0
    /\ req = [r \in Reqs |-> ReqIdle]
    /\ incLog = <<>>
    /\ leads = <<>> /\ CsvIdle

\* SPARK_PREFLIGHT_MODE is unset: the default, signals
Init ==
    /\ StoreInit
    /\ mode = "signals"

Others == <<rlVars, pfVars, promptVars, llmVars, csvVars, mode, leads>>

Conv(r) == convs[req[r].session]

\* spark_chat after authentication and rate limiting: the request of
\* client c from address ip, presenting token tok (0: none)
Arrive(r, c, ip, tok) ==
    /\ req[r].pc = "idle"
    /\ req' = [req EXCEPT ![r].pc = IF tok # 0 THEN "get_session"
                                     ELSE "create_session",
                          ![r].client = c, ![r].ip = ip, ![r].token = tok]
    /\ UNCHANGED <<convs, messages, tasks, utcnow, incLog, Others>>

\* the API key a request presents: the key of an active client, the key
\* of a deactivated client, a key no client has, or no key header at all
Credentials == Clients \cup {"deactivated", "unknown", "missing"}

\* a verification that tells an unknown key from a deactivated client
\* the wrong way round
VerifySparkApiKeySwapped(credential, lookup_raises) ==
    CASE credential = "missing" -> [status |-> 401, client |-> None]
      [] lookup_raises -> [status |-> 500, client |-> None]
      [] credential = "unknown" -> [status |-> 403, client |-> None]
      [] credential = "deactivated" -> [status |-> 401, client |-> None]
      [] OTHER -> [status |-> 200, client |-> credential]

\* verify_spark_api_key: 401 without a key header, 500 when the key
\* lookup raises, 401 when no row has the key, 403 when the client is
\* not active; else the client
VerifySparkApiKey(credential, lookup_raises) ==
    CASE credential = "missing" -> [status |-> 401, client |-> None]
      [] lookup_raises -> [status |-> 500, client |-> None]
      [] credential = "unknown" -> [status |-> 401, client |-> None]
      [] credential = "deactivated" -> [status |-> 403, client |-> None]
      [] OTHER -> [status |-> 200, client |-> credential]

\* POST /spark/chat is received from address ip with a credential and a
\* session token (0: none)
Request(r, credential, ip, tok) ==
    /\ req[r].pc = "idle"
    /\ req' = [req EXCEPT ![r].pc = "authenticate",
                          ![r].credential = credential,
                          ![r].ip = ip, ![r].token = tok]
    /\ UNCHANGED <<convs, messages, tasks, utcnow, incLog, Others>>

\* the dependency verify_spark_api_key: an HTTPException ends the request
\* before spark_chat's body runs
Authenticate(r) ==
    /\ req[r].pc = "authenticate"
    /\ \E lookup_raises \in BOOLEAN :
         LET verified == VerifySparkApiKey(req[r].credential, lookup_raises)
         IN req' = [req EXCEPT
                ![r].pc = IF verified.status = 200 THEN "rate_limit"
                          ELSE "rejected",
                ![r].status = IF verified.status = 200 THEN @
                              ELSE verified.status,
                ![r].client = verified.client]
    /\ UNCHANGED <<convs, messages, tasks, utcnow, incLog, Others>>

\* a limiter whose answer is not acted on
AfterRateLimitIgnored(allowed, tok) ==
    IF tok # 0 THEN "get_session" ELSE "create_session"

\* spark_chat after limiter.check: HTTPException(429) when it returns
\* False, else session management
AfterRateLimit(allowed, tok) ==
    IF ~allowed THEN "rejected"
    ELSE IF tok # 0 THEN "get_session" ELSE "create_session"

\* spark_chat: limiter.check(str(client.id), ip, client.rate_limit_rpm)
RateLimit(r) ==
    /\ req[r].pc = "rate_limit"
    /\ LET key == RateKey(req[r].client, req[r].ip)
           limit == rpm[req[r].client]
           allowed == CheckAllowed(windows[key], clock, limit)
       IN /\ windows' = [windows EXCEPT
                 ![key] = CheckWindow(windows[key], clock, limit)]
          /\ req' = [req EXCEPT
                 ![r].pc = AfterRateLimit(allowed, req[r].token),
                 ![r].status = IF allowed THEN 200 ELSE 429]
    /\ UNCHANGED <<convs, messages, tasks, utcnow, incLog, clock, rlLog,
                   pfVars, promptVars, llmVars, csvVars, mode, leads>>

\* a get_session that rebinds the conversation to the caller's address
GetSessionRebinds(r) ==
    /\ req[r].pc = "get_session"
    /\ LET found == GetSessionLookup(convs, req[r].token, req[r].ip, utcnow)
           ok == found.kind \in {"ok", "ip_mismatch"}
           id == IF found.kind = "ip_mismatch" THEN req[r].token ELSE found.id
       IN /\ req' = [req EXCEPT
                ![r].pc = CASE ok -> "get_boundary_count"
                            [] found.kind = "expired" -> "mark_expired"
                            [] OTHER -> "create_session",
                ![r].lookup = found.kind,
                ![r].session = id,
                ![r].turn_count = IF ok THEN convs[id].turn_count ELSE 0,
                ![r].events = IF ok
                              THEN <<SessionEvent(id, max_turns[req[r].client]
                                                  - convs[id].turn_count)>>
                              ELSE <<>>]
          /\ convs' = IF found.kind = "ip_mismatch"
                      THEN [convs EXCEPT ![id].ip_address = req[r].ip]
                      ELSE convs
    /\ UNCHANGED <<messages, tasks, utcnow, incLog, Others>>

\* get_session(body.session_token, ip): the select, the IP check and
\* the expiry check; with a session, event_stream yields the session event
GetSession(r) ==
    /\ req[r].pc = "get_session"
    /\ LET found == GetSessionLookup(convs, req[r].token, req[r].ip, utcnow)
       IN req' = [req EXCEPT
            ![r].pc = CASE found.kind = "ok" -> "get_boundary_count"
                        [] found.kind = "expired" -> "mark_expired"
                        [] OTHER -> "create_session",
            ![r].lookup = found.kind,
            ![r].session = found.id,
            ![r].turn_count = IF found.kind = "ok"
                              THEN convs[found.id].turn_count ELSE 0,
            ![r].events = IF found.kind = "ok"
                          THEN <<SessionEvent(found.id,
                                              max_turns[req[r].client]
                                              - convs[found.id].turn_count)>>
                          ELSE <<>>]
    /\ UNCHANGED <<convs, messages, tasks, utcnow, incLog, Others>>

\* get_session, expired row: the update to state = expired, return None
MarkExpired(r) ==
    /\ req[r].pc = "mark_expired"
    /\ convs' = [convs EXCEPT ![req[r].session] = MarkExpiredRow(@)]
    /\ req' = [req EXCEPT ![r].pc = "create_session", ![r].session = 0]
    /\ UNCHANGED <<messages, tasks, utcnow, incLog, Others>>

\* create_session(client.id, ip, fingerprint); event_stream then yields
\* the session event
CreateSession(r) ==
    /\ req[r].pc = "create_session"
    /\ convs' = Append(convs, NewRow(req[r].client, req[r].ip, None, utcnow))
    /\ messages' = Append(messages, <<>>)
    /\ tasks' = Append(tasks, 0)
    /\ incLog' = Append(incLog, <<>>)
    /\ req' = [req EXCEPT
          ![r].pc = "get_boundary_count",
          ![r].session = Len(convs) + 1,
          ![r].turn_count = 0,
          ![r].events = <<SessionEvent(Len(convs) + 1,
                                       max_turns[req[r].client])>>]
    /\ UNCHANGED <<utcnow, Others>>

\* _get_boundary_count: the counter of the row; any exception gives 0
GetBoundaryCount(r) ==
    /\ req[r].pc = "get_boundary_count"
    /\ \E n \in {Conv(r).boundary_signals_fired, 0} :
          req' = [req EXCEPT ![r].pc = "get_history", ![r].prior_signals = n,
                             ![r].rows_at_entry = Len(messages[req[r].session])]
    /\ UNCHANGED <<convs, messages, tasks, utcnow, incLog, Others>>

\* get_history(conversation_id, limit=spark_context_turns)
ReadHistory(r) ==
    /\ req[r].pc = "get_history"
    /\ req' = [req EXCEPT ![r].pc = "preflight",
                          ![r].history = GetHistory(messages[req[r].session])]
    /\ UNCHANGED <<convs, messages, tasks, utcnow, incLog, Others>>

\* a deflection that streams without storing the user message first
AfterPreflightSkipsUserStore(result) ==
    IF mode = "gate"
    THEN IF result.boundary_signal # None \/ Truthy(result.terminate)
         THEN "gate_store_assistant" ELSE "increment_refresh"
    ELSE IF Truthy(result.terminate)
         THEN "terminate_store" ELSE "increment_refresh"

\* the branch process_message takes on the preflight result: gate mode
\* deflects on a boundary signal (is not None) or terminate; signals mode
\* branches on terminate only
AfterPreflight(result) ==
    IF mode = "gate"
    THEN IF result.boundary_signal # None \/ Truthy(result.terminate)
         THEN "gate_store_user" ELSE "increment_refresh"
    ELSE IF Truthy(result.terminate)
         THEN "terminate_store" ELSE "increment_refresh"

\* a turn that launches no counter increment
LaunchesIncrementNever(result) == FALSE

\* signals mode, after the terminate check:
\* if preflight.boundary_signal: asyncio.create_task(_increment_boundary_count)
LaunchesIncrement(result) ==
    /\ ~result.raised
    /\ mode # "gate"
    /\ ~Truthy(result.terminate)
    /\ Truthy(result.boundary_signal)

\* a preflight failure that ends the stream without an event
PreflightFailedSilent(events) == events

\* except Exception around run_preflight: yield the error event, return
PreflightFailed(events) == Append(events, ErrorEvent)

\* process_message steps 2-3: run_preflight; an exception yields one
\* error event; in signals mode a boundary signal without terminate
\* launches the counter increment as a task
Preflight(r) ==
    /\ req[r].pc = "preflight"
    /\ \E in \in ModePreflightInputs :
         LET result == RunPreflight(in)
             launch == LaunchesIncrement(result)
         IN /\ req' = [req EXCEPT
                 ![r].preflight = result,
                 ![r].pc = IF result.raised THEN "finished"
                           ELSE AfterPreflight(result),
                 ![r].failed = IF result.raised THEN "preflight" ELSE None,
                 ![r].events = IF result.raised THEN PreflightFailed(@) ELSE @,
                 ![r].launched = IF launch THEN @ + 1 ELSE @]
            /\ tasks' = IF launch
                        THEN [tasks EXCEPT ![req[r].session] = @ + 1]
                        ELSE tasks
    /\ UNCHANGED <<convs, messages, utcnow, incLog, Others>>

GateTierNeverFirm(result) ==
    IF Truthy(result.terminate) THEN "terminate" ELSE "subtle"

\* gate mode: the rejection tier of the preflight result
GateTier(result) ==
    IF Truthy(result.terminate) THEN "terminate"
    ELSE IF result.boundary_signal \in {"identity_breaking",
                "extraction_framing", "adversarial_stress"}
    THEN "firm" ELSE "subtle"

\* _deflection_response(tier, settling_config).split(" ")
DeflectionResponse(tier) == <<"Deflection", tier>>

DeflectionTokens(tier) ==
    [i \in 1..Len(DeflectionResponse(tier)) |->
        TokenEvent(DeflectionResponse(tier)[i])]

\* gate mode: store_message(user)
GateStoreUser(r) ==
    /\ req[r].pc = "gate_store_user"
    /\ messages' = [messages EXCEPT
           ![req[r].session] = Append(@, MessageRow("user", <<"message">>))]
    /\ req' = [req EXCEPT ![r].pc = "gate_store_assistant",
                          ![r].user_stored_at = Len(req[r].events)]
    /\ UNCHANGED <<convs, tasks, utcnow, incLog, Others>>

\* gate mode: store_message(assistant, deflection), the deflection as
\* token events, the analytics task; without terminate, the done event
GateStoreAssistant(r) ==
    /\ req[r].pc = "gate_store_assistant"
    /\ LET tier == GateTier(req[r].preflight)
           terminate == Truthy(req[r].preflight.terminate)
       IN /\ messages' = [messages EXCEPT ![req[r].session] =
                 Append(@, MessageRow("assistant", DeflectionResponse(tier)))]
          /\ req' = [req EXCEPT
                 ![r].pc = IF terminate THEN "gate_end" ELSE "finished",
                 ![r].assistant_stored_at = Len(req[r].events),
                 ![r].events = (@ \o DeflectionTokens(tier))
                     \o (IF terminate THEN <<>> ELSE <<DoneEmpty>>)]
    /\ UNCHANGED <<convs, tasks, utcnow, incLog, Others>>

\* gate mode, terminate: end_session(terminated, terminated), then done
GateEnd(r) ==
    /\ req[r].pc = "gate_end"
    /\ convs' = [convs EXCEPT ![req[r].session] =
                    EndSessionRow(@, "terminated", "terminated")]
    /\ req' = [req EXCEPT ![r].pc = "finished",
                          ![r].events = Append(@, DoneEmpty)]
    /\ UNCHANGED <<messages, tasks, utcnow, incLog, Others>>

\* _increment_boundary_count, a fire-and-forget task: the atomic
\* increment RPC; an exception is logged and swallowed
BoundaryTask(id) ==
    /\ tasks[id] > 0
    /\ tasks' = [tasks EXCEPT ![id] = @ - 1]
    /\ \/ convs' = [convs EXCEPT ![id].boundary_signals_fired = @ + 1]
       \/ UNCHANGED convs
    /\ UNCHANGED <<messages, utcnow, req, incLog, Others>>

\* terminate path: store_message(user)
TerminateStore(r) ==
    /\ req[r].pc = "terminate_store"
    /\ messages' = [messages EXCEPT
           ![req[r].session] = Append(@, MessageRow("user", <<"message">>))]
    /\ req' = [req EXCEPT ![r].pc = "terminate_end",
                          ![r].user_stored_at = Len(req[r].events)]
    /\ UNCHANGED <<convs, tasks, utcnow, incLog, Others>>

\* terminate path: end_session(terminated, terminated), then the done
\* event with terminated: true
TerminateEnd(r) ==
    /\ req[r].pc = "terminate_end"
    /\ convs' = [convs EXCEPT ![req[r].session] =
                    EndSessionRow(@, "terminated", "terminated")]
    /\ req' = [req EXCEPT ![r].pc = "finished",
                          ![r].events = Append(@, DoneTerminated)]
    /\ UNCHANGED <<messages, tasks, utcnow, incLog, Others>>

\* increment_turn, first statement: the update that refreshes expires_at
\* and updated_at (its turn_count placeholder is replaced by the write
\* below)
IncrementRefresh(r) ==
    /\ req[r].pc = "increment_refresh"
    /\ convs' = [convs EXCEPT ![req[r].session].expires_at =
                    utcnow + SessionTimeout]
    /\ req' = [req EXCEPT ![r].pc = "increment_read",
                          ![r].new_expires = utcnow + SessionTimeout]
    /\ UNCHANGED <<messages, tasks, utcnow, incLog, Others>>

\* increment_turn, second statement: select turn_count
IncrementRead(r) ==
    /\ req[r].pc = "increment_read"
    /\ req' = [req EXCEPT ![r].pc = "increment_write",
                          ![r].read_count = Conv(r).turn_count]
    /\ UNCHANGED <<convs, messages, tasks, utcnow, incLog, Others>>

\* mutant: the new count is the count read
NewCountStuck(read_count) == read_count

\* new_count = row["turn_count"] + 1
NewCount(read_count) == read_count + 1

\* increment_turn, third statement: write new_count and return it; then
\* process_message step 4: turns_remaining
IncrementWrite(r) ==
    /\ req[r].pc = "increment_write"
    /\ LET new_count == NewCount(req[r].read_count)
           turns_remaining == max_turns[req[r].client] - new_count
       IN /\ convs' = [convs EXCEPT
                 ![req[r].session].turn_count = new_count,
                 ![req[r].session].expires_at = req[r].new_expires]
          /\ incLog' = [incLog EXCEPT ![req[r].session] = Append(@, new_count)]
          /\ req' = [req EXCEPT
                 ![r].new_turn_count = new_count,
                 ![r].pc = IF turns_remaining <= 0 THEN "farewell_store_user"
                           ELSE "store_user"]
    /\ UNCHANGED <<messages, tasks, utcnow, Others>>

\* the words of settling_config["lead_capture_prompt"], farewell.split(" ")
Farewell == <<"Thanks", "bye">>

FarewellTokens == [i \in 1..Len(Farewell) |-> TokenEvent(Farewell[i])]

\* max turns reached: store_message(user)
FarewellStoreUser(r) ==
    /\ req[r].pc = "farewell_store_user"
    /\ messages' = [messages EXCEPT
           ![req[r].session] = Append(@, MessageRow("user", <<"message">>))]
    /\ req' = [req EXCEPT ![r].pc = "farewell_store_assistant",
                          ![r].user_stored_at = Len(req[r].events)]
    /\ UNCHANGED <<convs, tasks, utcnow, incLog, Others>>

\* max turns reached: store_message(assistant, farewell), then the
\* farewell as token events
FarewellStoreAssistant(r) ==
    /\ req[r].pc = "farewell_store_assistant"
    /\ messages' = [messages EXCEPT
           ![req[r].session] = Append(@, MessageRow("assistant", Farewell))]
    /\ req' = [req EXCEPT ![r].pc = "farewell_end",
                          ![r].assistant_stored_at = Len(req[r].events),
                          ![r].events = @ \o FarewellTokens]
    /\ UNCHANGED <<convs, tasks, utcnow, incLog, Others>>

\* max turns reached: end_session(completed, completed), then done
FarewellEnd(r) ==
    /\ req[r].pc = "farewell_end"
    /\ convs' = [convs EXCEPT ![req[r].session] =
                    EndSessionRow(@, "completed", "completed")]
    /\ req' = [req EXCEPT ![r].pc = "finished",
                          ![r].events = Append(@, DoneEvent(0))]
    /\ UNCHANGED <<messages, tasks, utcnow, incLog, Others>>

\* steps 5-6: build_system_prompt and the LLM messages (no store access),
\* store_message(user); then llm.stream is entered
StoreUser(r) ==
    /\ req[r].pc = "store_user"
    /\ messages' = [messages EXCEPT
           ![req[r].session] = Append(@, MessageRow("user", <<"message">>))]
    /\ req' = [req EXCEPT ![r].pc = "stream", ![r].stream_calls = @ + 1,
                          ![r].prompt_calls = @ + 1,
                          ![r].prompt_boundary_signal =
                              req[r].preflight.boundary_signal,
                          ![r].user_stored_at = Len(req[r].events)]
    /\ UNCHANGED <<convs, tasks, utcnow, incLog, Others>>

\* llm.stream, primary model: one delta is yielded; process_message adds
\* it to full_response and yields a token event
StreamDelta(r) ==
    /\ req[r].pc = "stream"
    /\ Len(req[r].full_response) < MaxDeltas
    /\ req' = [req EXCEPT ![r].full_response = Append(@, "primary"),
                          ![r].events = Append(@, TokenEvent("primary"))]
    /\ UNCHANGED <<convs, messages, tasks, utcnow, incLog, Others>>

\* llm.stream, primary model: the stream ends
StreamEnd(r) ==
    /\ req[r].pc = "stream"
    /\ req' = [req EXCEPT ![r].pc = "store_assistant"]
    /\ UNCHANGED <<convs, messages, tasks, utcnow, incLog, Others>>

\* llm.stream, primary model: acompletion or the chunk iteration raises;
\* _get_fallback(primary) names the fallback model
StreamFail(r) ==
    /\ req[r].pc = "stream"
    /\ req' = [req EXCEPT ![r].pc = "fallback"]
    /\ UNCHANGED <<convs, messages, tasks, utcnow, incLog, Others>>

\* llm.stream, fallback: complete(model=fallback) returns; a non-empty
\* result is yielded as one delta
FallbackOk(r) ==
    /\ req[r].pc = "fallback"
    /\ \/ req' = [req EXCEPT ![r].pc = "store_assistant",
                             ![r].full_response = Append(@, "fallback"),
                             ![r].events = Append(@, TokenEvent("fallback"))]
       \/ req' = [req EXCEPT ![r].pc = "store_assistant"]
    /\ UNCHANGED <<convs, messages, tasks, utcnow, incLog, Others>>

\* llm.stream, fallback: complete(model=fallback) raises, stream re-raises
\* and process_message yields one error event
FallbackFail(r) ==
    /\ req[r].pc = "fallback"
    /\ req' = [req EXCEPT ![r].pc = "finished", ![r].failed = "stream",
                          ![r].events = Append(@, ErrorEvent)]
    /\ UNCHANGED <<convs, messages, tasks, utcnow, incLog, Others>>

\* a handler that swallows the cancellation and goes on pulling deltas
AfterCancelKeepsPulling == "stream"

\* where process_message is after a cancellation: CancelledError and
\* GeneratorExit are not Exception, so neither llm.stream's handler (no
\* fallback) nor process_message's (no error event) catches them and the
\* generator is left
AfterCancel == "finished"

\* the HTTP client disconnects during the model stream: the response
\* task is cancelled at the await on the next delta (or on the fallback
\* completion) or the generator is closed at the token yield
Cancel(r) ==
    /\ req[r].pc \in {"stream", "fallback"}
    /\ req' = [req EXCEPT ![r].pc = AfterCancel,
                          ![r].failed = "cancelled",
                          ![r].pulled_at_cancel = Len(req[r].full_response)]
    /\ UNCHANGED <<convs, messages, tasks, utcnow, incLog, Others>>

\* mutant: the closing done event is not yielded
FinalEventsNoDone(events, wind_down, turns_remaining) ==
    IF wind_down THEN Append(events, WindDownEvent(turns_remaining)) ELSE events

\* step 8, the events after the stream: wind_down when due, then done
FinalEvents(events, wind_down, turns_remaining) ==
    (IF wind_down THEN Append(events, WindDownEvent(turns_remaining))
     ELSE events) \o <<DoneEvent(turns_remaining)>>

\* step 8: store_message(assistant, normalize_format(full_response)),
\* the wind_down event when due, the analytics tasks, the done event.
\* content records which model responses the stored text was built from.
StoreAssistant(r) ==
    /\ req[r].pc = "store_assistant"
    /\ LET turns_remaining == max_turns[req[r].client] - req[r].new_turn_count
           wind_down == ShouldWindDown(req[r].new_turn_count,
                                       max_turns[req[r].client])
       IN /\ messages' = [messages EXCEPT ![req[r].session] =
                 Append(@, MessageRow("assistant", req[r].full_response))]
          /\ req' = [req EXCEPT
                 ![r].pc = "finished",
                 ![r].assistant_stored_at = Len(req[r].events),
                 ![r].events = FinalEvents(@, wind_down, turns_remaining)]
    /\ UNCHANGED <<convs, tasks, utcnow, incLog, Others>>

\* the store operation a request awaits at each step
StoreOp ==
    [get_history |-> "get_history",
     terminate_store |-> "store_message",
     terminate_end |-> "end_session",
     increment_refresh |-> "increment_turn",
     increment_read |-> "increment_turn",
     increment_write |-> "increment_turn",
     farewell_store_user |-> "store_message",
     farewell_store_assistant |-> "store_message",
     farewell_end |-> "end_session",
     store_user |-> "store_message",
     store_assistant |-> "store_message",
     gate_store_user |-> "store_message",
     gate_store_assistant |-> "store_message",
     gate_end |-> "end_session"]

\* the store operation of the step raises (the store is unreachable, the
\* statement is rejected): nothing is written, the exception leaves
\* process_message, which has no handler for it, and the generator ends
StoreFailure(r) ==
    /\ req[r].pc \in DOMAIN StoreOp
    /\ req' = [req EXCEPT ![r].pc = "finished",
                          ![r].failed = StoreOp[req[r].pc]]
    /\ UNCHANGED <<convs, messages, tasks, utcnow, incLog, Others>>

\* the response is over: the request's locals are gone
Recycle(r) ==
    /\ req[r].pc \in {"finished", "rejected"}
    /\ req' = [req EXCEPT ![r] = [ReqIdle EXCEPT !.pc = "over"]]
    /\ UNCHANGED <<convs, messages, tasks, utcnow, incLog, Others>>

\* time passes
Tick ==
    /\ utcnow < MaxTime
    /\ utcnow' = utcnow + 1
    /\ UNCHANGED <<convs, messages, tasks, req, incLog, Others>>

\* the steps of a request between its arrival and its end
Step(r) ==
    \/ GetSession(r)
    \/ CreateSession(r)
    \/ GetBoundaryCount(r)
    \/ ReadHistory(r)
    \/ Preflight(r)
    \/ IncrementRefresh(r)
    \/ IncrementRead(r)
    \/ IncrementWrite(r)
    \/ FarewellStoreUser(r)
    \/ FarewellStoreAssistant(r)
    \/ FarewellEnd(r)
    \/ StoreUser(r)
    \/ StreamDelta(r)
    \/ StreamEnd(r)
    \/ StreamFail(r)
    \/ FallbackOk(r)
    \/ FallbackFail(r)
    \/ Cancel(r)
    \/ StoreAssistant(r)

\* spark_conversations: update({"outcome": "lead_captured"})
\*     .eq("id", str(body.conversation_id))
LeadUpdate(cs, client_id, conversation_id) ==
    [i \in 1..Len(cs) |->
        IF i = conversation_id
        THEN [cs[i] EXCEPT !.outcome = "lead_captured"] ELSE cs[i]]

\* POST /spark/lead, authenticated as client_id, for the conversation id
\* of its body (0: an id no conversation has): the lead row is inserted
\* and the outcome of the conversation is set
SparkLead(client_id, conversation_id) ==
    /\ Len(leads) < MaxLeads
    /\ leads' = Append(leads, [client_id |-> client_id,
                               conversation_id |-> conversation_id])
    /\ convs' = LeadUpdate(convs, client_id, conversation_id)
    /\ UNCHANGED <<messages, tasks, utcnow, req, incLog,
                   rlVars, pfVars, promptVars, llmVars, csvVars, mode>>

\* the steps of signals mode only
SignalsStep(r) ==
    \/ TerminateStore(r)
    \/ TerminateEnd(r)

\* the steps of gate mode only
GateStep(r) ==
    \/ GateStoreUser(r)
    \/ GateStoreAssistant(r)
    \/ GateEnd(r)

\* Requests served one after the other, the second once the first is
\* over; a store operation may fail.
Next ==
    \/ \E r \in Reqs, c \in Clients, ip \in IPs, tok \in 0..Len(convs) :
           /\ r = "r2" => req["r1"].pc = "over"
           /\ Arrive(r, c, ip, tok)
    \/ \E r \in Reqs : Step(r)
    \/ \E r \in Reqs : SignalsStep(r)
    \/ \E r \in Reqs : MarkExpired(r)
    \/ \E r \in Reqs : StoreFailure(r)
    \/ \E r \in Reqs : Recycle(r)
    \/ \E id \in 1..Len(convs) : BoundaryTask(id)
    \/ Tick

Spec == Init /\ [][Next]_vars

\* time.monotonic() is read by limiter.check only: the time that passes
\* is accounted for when a request is about to read it
AdvanceBeforeCheck ==
    /\ \E r \in Reqs : req[r].pc = "rate_limit"
    /\ Advance

\* Requests from their reception on, through authentication and the
\* rate limiter, served one after the other; the limiter's clock runs.
NextAdmission ==
    \/ \E r \in Reqs, credential \in Credentials, ip \in IPs,
          tok \in 0..Len(convs) :
           /\ r = "r2" => req["r1"].pc = "over"
           /\ Request(r, credential, ip, tok)
    \/ \E r \in Reqs : Authenticate(r)
    \/ \E r \in Reqs : RateLimit(r)
    \/ \E r \in Reqs : Step(r)
    \/ \E r \in Reqs : SignalsStep(r)
    \/ \E r \in Reqs : Recycle(r)
    \/ \E id \in 1..Len(convs) : BoundaryTask(id)
    \/ AdvanceBeforeCheck

SpecAdmission == Init /\ [][NextAdmission]_vars

\* Either setting of SPARK_PREFLIGHT_MODE, fixed for the whole run.
InitModes ==
    /\ StoreInit
    /\ mode \in {"signals", "gate"}

NextModes ==
    \/ \E r \in Reqs, c \in Clients, ip \in IPs, tok \in 0..Len(convs) :
           /\ r = "r2" => req["r1"].pc = "over"
           /\ Arrive(r, c, ip, tok)
    \/ \E r \in Reqs : Step(r)
    \/ \E r \in Reqs : SignalsStep(r)
    \/ \E r \in Reqs : GateStep(r)
    \/ \E r \in Reqs : MarkExpired(r)
    \/ \E r \in Reqs : StoreFailure(r)
    \/ \E r \in Reqs : Recycle(r)
    \/ \E id \in 1..Len(convs) : BoundaryTask(id)
    \/ Tick

SpecModes == InitModes /\ [][NextModes]_vars

\* SPARK_PREFLIGHT_MODE=gate
InitGate ==
    /\ StoreInit
    /\ mode = "gate"

\* Requests served one after the other in gate mode, which launches no
\* counter increment and has no terminate path of its own.
NextGate ==
    \/ \E r \in Reqs, c \in Clients, ip \in IPs, tok \in 0..Len(convs) :
           /\ r = "r2" => req["r1"].pc = "over"
           /\ Arrive(r, c, ip, tok)
    \/ \E r \in Reqs : Step(r)
    \/ \E r \in Reqs : GateStep(r)
    \/ \E r \in Reqs : MarkExpired(r)
    \/ \E r \in Reqs : StoreFailure(r)
    \/ \E r \in Reqs : Recycle(r)
    \/ Tick

SpecGate == InitGate /\ [][NextGate]_vars

\* a conversation of a long client, some turns into it
LongInit ==
    /\ RLIdle
    /\ PFIdle
    /\ PromptIdle
    /\ LlmIdle
    /\ \E c \in LongClients, n \in 0..10 :
          /\ n < max_turns[c]
          /\ convs = <<[NewRow(c, "ip1", None, 0) EXCEPT !.turn_count = n]>>
    /\ messages = <<<<>>>>
    /\ tasks = <<0>>
    /\ incLog = <<<<>>>>
    /\ utcnow = 0
    /\ req = [r \in Reqs |-> ReqIdle]
    /\ mode = "signals"
    /\ leads = <<>> /\ CsvIdle

\* One more turn of the conversation, or the first turn of a new one.
NextLong ==
    \/ \E c \in LongClients, tok \in 0..1 : Arrive("r1", c, "ip1", tok)
    \/ \E r \in Reqs : Step(r)
    \/ \E r \in Reqs : SignalsStep(r)
    \/ \E id \in 1..Len(convs) : BoundaryTask(id)

SpecLong == LongInit /\ [][NextLong]_vars

\* one conversation of client A, no turn counted yet
TurnsInit ==
    /\ RLIdle /\ PFIdle /\ PromptIdle /\ LlmIdle
    /\ convs = <<NewRow("A", "ip1", None, 0)>>
    /\ messages = <<<<>>>> /\ tasks = <<0>> /\ incLog = <<<<>>>>
    /\ utcnow = 0 /\ req = [r \in Reqs |-> ReqIdle]
    /\ mode = "signals" /\ leads = <<>> /\ CsvIdle

\* a further request on the conversation, served once an earlier response
\* is over
ArriveAfter(r, c, ip, tok) ==
    /\ req[r].pc = "over"
    /\ Len(incLog[tok]) <= MaxWritten
    /\ Len(convs) = 1
    /\ req' = [req EXCEPT ![r] = [ReqIdle EXCEPT
                  !.pc = "get_session", !.client = c, !.ip = ip,
                  !.token = tok]]
    /\ UNCHANGED <<convs, messages, tasks, utcnow, incLog, Others>>

\* Requests on one conversation, in flight together and one after the
\* other, every interleaving of their steps.
NextTurns ==
    \/ \E r \in Reqs :
           /\ r = "r2" => req["r1"].pc # "idle"
           /\ Arrive(r, "A", "ip1", 1)
    \/ ArriveAfter("r2", "A", "ip1", 1)
    \/ \E r \in Reqs : Step(r)
    \/ \E r \in Reqs : Recycle(r)

SpecTurns == TurnsInit /\ [][NextTurns]_vars

\* Chat requests served one after the other, and lead captures at any
\* moment between their steps.
NextLead ==
    \/ \E r \in Reqs, c \in Clients, ip \in IPs, tok \in 0..Len(convs) :
           /\ r = "r2" => req["r1"].pc = "over"
           /\ Arrive(r, c, ip, tok)
    \/ \E r \in Reqs : Step(r)
    \/ \E r \in Reqs : SignalsStep(r)
    \/ \E r \in Reqs : Recycle(r)
    \/ \E id \in 1..Len(convs) : BoundaryTask(id)
    \/ \E c \in Clients, id \in 0..Len(convs) : SparkLead(c, id)

SpecLead == Init /\ [][NextLead]_vars

\* Requests in flight together within the session timeout, every
\* interleaving of their steps; the second arrives after the first.
NextConcurrent ==
    \/ \E r \in Reqs, c \in Clients, ip \in IPs, tok \in 0..Len(convs) :
           /\ r = "r2" => req["r1"].pc # "idle"
           /\ Arrive(r, c, ip, tok)
    \/ \E r \in Reqs : Step(r)
    \/ \E r \in Reqs : SignalsStep(r)
    \/ \E id \in 1..Len(convs) : BoundaryTask(id)

SpecConcurrent == Init /\ [][NextConcurrent]_vars

\* =====================================================================
\* Claims
\* =====================================================================

\* the key's window holds no admitted request at call i of its log
WindowEmptyAt(log, i) ==
    \A j \in 1..(i - 1) : log[j].ok => log[j].t <= log[i].t - WindowSeconds

\* C4 - Rate limit rejection: starting from a call that finds the key's
\* window empty, the first `limit` check() calls of the key made inside
\* one 60 s window all return True and the next call inside that window
\* returns False.
C4_RateLimitRejection ==
    \A c \in Clients, ip \in IPs :
        LET log == rlLog[RateKey(c, ip)]
            limit == rpm[c]
        IN \A i \in 1..Len(log) :
             WindowEmptyAt(log, i) =>
               \A j \in i..Len(log) :
                  (j <= i + limit /\ log[j].t - log[i].t < WindowSeconds)
                     => (log[j].ok <=> j < i + limit)

C4_Witness ==
    \E c \in Clients, ip \in IPs :
        LET log == rlLog[RateKey(c, ip)]
            limit == rpm[c]
        IN /\ Len(log) > limit
           /\ \A j \in 1..limit : log[j].ok
           /\ ~log[limit + 1].ok
           /\ log[limit + 1].t - log[1].t < WindowSeconds

\* C5 - Rate limit recovery: a check() of a key made once 60 s have
\* elapsed since the oldest timestamp stored for the key returns True,
\* whatever calls were rejected before.
C5_RateLimitRecovery ==
    [][\A k \in Keys :
          (/\ rlLog'[k] # rlLog[k]
           /\ windows[k] # <<>>
           /\ clock - windows[k][1] >= WindowSeconds)
          => rlLog'[k][Len(rlLog'[k])].ok]_vars

\* a key was blocked and, 60 s after its oldest admission, admitted again
C5_Witness ==
    \E k \in Keys : \E i \in 2..Len(rlLog[k]) :
        /\ ~rlLog[k][i - 1].ok
        /\ rlLog[k][i].ok
        /\ rlLog[k][i].t - rlLog[k][1].t >= WindowSeconds
        /\ rlLog[k][i].t - rlLog[k][i - 1].t <= TickLen

\* a classifier branch failed: the call raised or its output did not parse
ClassifierFailed(out) == out.kind # "object"

RetrievalFailed(out) == out.kind # "ok"

\* the value a key of the classifier's object gives, None when absent
FieldOr(v, default) == IF v = Missing THEN default ELSE v

InRows(row, rows) == \E i \in 1..Len(rows) : rows[i] = row

Resolved(r) ==
    req[r].pc \notin {"idle", "get_session", "mark_expired", "create_session",
                     "over"}

\* C1 (tenant isolation of sessions): every request that has resolved a
\* conversation is served on a conversation owned by the client whose
\* key authenticated it, whatever session token it presented.
C1_TenantIsolation ==
    \A r \in Reqs :
        Resolved(r) => convs[req[r].session].client_id = req[r].client

\* the token names an active conversation that has not expired
ActiveUnexpired(token) ==
    /\ token \in 1..Len(convs)
    /\ convs[token].state = "active"
    /\ ~(utcnow > convs[token].expires_at)

\* C2 (IP binding): a get_session step on the token of an active,
\* unexpired conversation leaves every conversation unchanged, returns
\* that conversation when the caller's address is the one it was created
\* from, and returns None (a fresh session is created) for any other
\* address.
C2_IpBinding ==
    [][\A r \in Reqs :
          (/\ req[r].pc = "get_session"
           /\ req'[r].pc # "get_session"
           /\ ActiveUnexpired(req[r].token))
          => /\ convs' = convs
             /\ IF convs[req[r].token].ip_address = req[r].ip
                THEN /\ req'[r].session = req[r].token
                     /\ req'[r].pc = "get_boundary_count"
                ELSE /\ req'[r].session = 0
                     /\ req'[r].pc = "create_session"]_vars

\* get_session has returned None for the token of an active, unexpired
\* conversation presented from another address
C2_Witness ==
    \E r \in Reqs :
        /\ req[r].pc = "create_session"
        /\ ActiveUnexpired(req[r].token)
        /\ convs[req[r].token].ip_address # req[r].ip

\* C3 (turn monotonicity): for every conversation the values returned by
\* increment_turn are 1, 2, 3, ... in order, without gap or duplicate.
C3_TurnMonotonicity ==
    \A id \in 1..Len(incLog) :
        \A i \in 1..Len(incLog[id]) : incLog[id][i] = i

\* C6 (session expiry): a conversation that get_session has expired has
\* state expired, outcome abandoned and ended_at set.
C6_SessionExpiry ==
    \A id \in 1..Len(convs) :
        convs[id].state = "expired"
        => /\ convs[id].outcome = "abandoned"
           /\ convs[id].ended_at # NullNum

\* ---------------------------------------------------------------------
\* The event stream of a turn
\* ---------------------------------------------------------------------
\* the positions of the events of the given kinds
EventsOf(events, kinds) == {i \in 1..Len(events) : events[i].event \in kinds}

\* C8 (terminate skips the model): a turn whose preflight asked to
\* terminate, once over without a failed operation, has made no call to
\* the streaming model, has no token event, has exactly one done event,
\* which carries terminated: true, and leaves the conversation in state
\* terminated with outcome terminated.
C8_TerminateSkipsModel ==
    \A r \in Reqs :
        (/\ req[r].pc = "finished"
         /\ req[r].failed = None
         /\ Truthy(req[r].preflight.terminate))
        => /\ req[r].stream_calls = 0
           /\ EventsOf(req[r].events, {"token"}) = {}
           /\ EventsOf(req[r].events, {"done"}) = {Len(req[r].events)}
           /\ req[r].events[Len(req[r].events)].terminated
           /\ Conv(r).state = "terminated"
           /\ Conv(r).outcome = "terminated"

\* C9 (SSE terminality): the events of a request hold at most one
\* terminal event (done or error), it is the last event and the request
\* is over; a turn that is over with no failed operation ends with a done
\* event.
C9_SseTerminality ==
    \A r \in Reqs :
        LET events == req[r].events
            terminal == EventsOf(events, {"done", "error"})
        IN /\ Cardinality(terminal) <= 1
           /\ terminal # {} => /\ terminal = {Len(events)}
                               /\ req[r].pc = "finished"
           /\ (req[r].pc = "finished" /\ req[r].failed = None)
              => /\ terminal = {Len(events)}
                 /\ events[Len(events)].event = "done"

\* a turn streamed tokens and is over, no operation having failed
C9_Witness ==
    \E r \in Reqs :
        /\ req[r].pc = "finished"
        /\ req[r].failed = None
        /\ EventsOf(req[r].events, {"token"}) # {}
        /\ req[r].stream_calls = 1

\* C10 (failed streams end with an error event): a turn that is over
\* because one of its operations failed has exactly one error event, and
\* it is the last event.
C10_FailedStreamsEndWithError ==
    \A r \in Reqs :
        (/\ req[r].pc = "finished"
         /\ req[r].failed \in {"preflight", "increment_turn", "store_message",
                               "end_session", "stream"})
        => EventsOf(req[r].events, {"error"}) = {Len(req[r].events)}

\* ---------------------------------------------------------------------
\* Prompt budget
\* ---------------------------------------------------------------------
\* the budget can be met by trimming the P3/P4 components alone: it is
\* met with doc_context trimmed away
BudgetAchievable(in) ==
    EstimateTokens(PromptLen(in, in.template.len, 0)) <= TOKEN_BUDGET

\* C11 (prompt budget): the prompt build_system_prompt returns is
\* estimated at no more than 12,000 tokens whenever trimming doc_context
\* alone can achieve that; otherwise the warning is logged and the
\* orientation and the custom instructions are intact.
C11_PromptBudget ==
    promptDone =>
        IF BudgetAchievable(promptIn)
        THEN EstimateTokens(promptOut.prompt_len) <= TOKEN_BUDGET
        ELSE /\ promptOut.warned
             /\ promptOut.orientation_len = promptIn.template.len
             /\ promptOut.custom_instructions_len
                    = promptIn.custom_instructions.len

\* ---------------------------------------------------------------------
\* Conversation life cycle
\* ---------------------------------------------------------------------
TerminalStates == {"terminated", "completed", "expired"}

\* C12 (terminal states are sinks): no step changes the state of a
\* conversation whose state is terminated, completed or expired.
C12_TerminalStatesAreSinks ==
    [][\A id \in 1..Len(convs) :
          convs[id].state \in TerminalStates
          => convs'[id].state = convs[id].state]_vars

\* C13 (user message durability ordering): in every turn, in either
\* preflight mode, the user message is stored before the first token
\* event is emitted: a request that has emitted a token event (model
\* reply, max-turns farewell or gate-mode deflection) has stored its user
\* message at a point where fewer events had been emitted than the
\* position of any of its token events.
C13_UserStoredBeforeTokens ==
    \A r \in Reqs :
        EventsOf(req[r].events, {"token"}) # {}
        => /\ req[r].user_stored_at # NullNum
           /\ \A i \in EventsOf(req[r].events, {"token"}) :
                 i > req[r].user_stored_at
           /\ \E i \in 1..Len(messages[req[r].session]) :
                 messages[req[r].session][i].role = "user"

\* a gate-mode deflection has streamed its tokens and the turn is over
C13_Witness ==
    \E r \in Reqs :
        /\ req[r].pc = "finished"
        /\ req[r].failed = None
        /\ mode = "gate"
        /\ req[r].preflight.boundary_signal # None
        /\ EventsOf(req[r].events, {"token"}) # {}
        /\ req[r].stream_calls = 0

\* C14 (assistant message ordering): in every turn in which an assistant
\* message is stored (model reply or max-turns farewell), it is stored
\* after the last token event: no token event of the request lies beyond
\* the events that had been emitted when the assistant row was stored.
C14_AssistantStoredAfterTokens ==
    \A r \in Reqs :
        req[r].assistant_stored_at # NullNum
        => \A i \in EventsOf(req[r].events, {"token"}) :
              i <= req[r].assistant_stored_at

C16_ModelFallback ==
    LET n == Len(llm.attempts)
        over == llm.pc = "over"
    IN /\ n <= 2
       /\ \A i \in 1..n : llm.attempts[i].args = llm.args
       /\ n >= 1 => llm.attempts[1].model = llm.resolved
       /\ llm.resolved # spark_primary_model => n <= 1
       /\ (over /\ llm.resolved = spark_primary_model
               /\ llm.attempts[1].result = "failed")
          => /\ n = 2
             /\ llm.attempts[2].model = spark_fallback_model
             /\ llm.attempts[2].result = "failed" <=> llm.outcome = "raised"
       /\ (over /\ llm.attempts[1].result = "ok")
          => n = 1 /\ llm.outcome = "returned"
       /\ (over /\ llm.resolved # spark_primary_model
               /\ llm.attempts[1].result = "failed")
          => llm.outcome = "raised"

\* a stream on the primary model has failed over to the fallback model,
\* which failed too
C16_Witness ==
    /\ llm.pc = "over"
    /\ llm.op = "stream"
    /\ llm.resolved = spark_primary_model
    /\ Len(llm.attempts) = 2
    /\ llm.attempts[2].result = "failed"
    /\ llm.outcome = "raised"

\* the turn took the max-turns branch: the incremented turn count leaves
\* turns_remaining <= 0
MaxTurnsReached(r) ==
    /\ req[r].new_turn_count # NullNum
    /\ max_turns[req[r].client] - req[r].new_turn_count <= 0

\* C17 (max turns reached): a turn whose incremented turn count leaves
\* turns_remaining <= 0, once over without a failed operation, has made
\* no model call, has emitted the farewell as token events followed by
\* done with turns_remaining 0, has stored the user message and the
\* farewell, and leaves the conversation in state completed with outcome
\* completed.
C17_MaxTurnsReached ==
    \A r \in Reqs :
        (/\ req[r].pc = "finished"
         /\ req[r].failed = None
         /\ MaxTurnsReached(r))
        => LET events == req[r].events
               n == Len(events)
               rows == messages[req[r].session]
           IN /\ req[r].stream_calls = 0
              /\ n >= Len(Farewell) + 1
              /\ events[n] = DoneEvent(0)
              /\ \A i \in 1..Len(Farewell) :
                    events[n - 1 - Len(Farewell) + i] = TokenEvent(Farewell[i])
              /\ EventsOf(events, {"token"})
                    = (n - Len(Farewell))..(n - 1)
              /\ Len(rows) >= 2
              /\ rows[Len(rows) - 1].role = "user"
              /\ rows[Len(rows)] = MessageRow("assistant", Farewell)
              /\ Conv(r).state = "completed"
              /\ Conv(r).outcome = "completed"

\* the request presented the token of an active conversation from an
\* address other than the one the conversation was created from
Rebind(r) == req[r].lookup = "ip_mismatch"

\* C18 (IP rebind attempt): a request that presents the token of an
\* active conversation from a different IP is served as if it had no
\* session: no step it takes changes the original conversation's row or
\* messages, the original stays resolvable from its own IP when the
\* mismatch is found, and the conversation the request is served on is a
\* new one whose token, not the original's, is the one announced in its
\* session event.
C18_IpRebind ==
    [][\A r \in Reqs :
          /\ (Rebind(r) /\ req'[r] # req[r] /\ req'[r].pc # "over")
             => /\ convs'[req[r].token] = convs[req[r].token]
                /\ messages'[req[r].token] = messages[req[r].token]
                /\ req[r].pc = "create_session"
                   => /\ Len(convs') = Len(convs) + 1
                      /\ req'[r].session = Len(convs')
                      /\ convs'[req'[r].session].state = "active"
                      /\ convs'[req'[r].session].turn_count = 0
                      /\ req'[r].events
                            = <<SessionEvent(req'[r].session,
                                             max_turns[req[r].client])>>
                /\ req[r].pc # "create_session"
                   => /\ req'[r].session = req[r].session
                      /\ req[r].session # req[r].token
                      /\ req'[r].events[1] = req[r].events[1]
          /\ (req[r].pc = "get_session" /\ Rebind(r)')
             => /\ convs' = convs
                /\ messages' = messages
                /\ req'[r].events = <<>>
                /\ ActiveUnexpired(req[r].token)
                   => GetSessionLookup(convs', req[r].token,
                          convs[req[r].token].ip_address, utcnow').kind = "ok"
      ]_vars

\* a request that presented another address's token has been served to
\* the end on a new conversation while the original has turns and messages
C18_Witness ==
    \E r \in Reqs :
        /\ Rebind(r)
        /\ req[r].pc = "finished"
        /\ req[r].failed = None
        /\ req[r].session # req[r].token
        /\ convs[req[r].token].turn_count > 0
        /\ Len(messages[req[r].token]) > 0
        /\ Len(messages[req[r].session]) > 0

\* the request r takes this step
Moves(r) == req'[r] # req[r]

\* this step creates, resolves or mutates a conversation, or emits an event
SessionWork(r) ==
    \/ convs' # convs
    \/ messages' # messages
    \/ tasks' # tasks
    \/ req'[r].lookup # req[r].lookup
    \/ req'[r].session # req[r].session
    \/ req'[r].events # req[r].events

\* C19 (admission precedes session work): a request that fails
\* authentication (401, 403, 500) or is rejected by the rate limiter (429)
\* has emitted no SSE event and has created, resolved and mutated no
\* conversation; the rate limiter is consulted only for requests that
\* authenticated, and the session store is used only by requests that
\* were admitted.
C19_AdmissionPrecedesSessionWork ==
    [][\A r \in Reqs :
          /\ (Moves(r) /\ req'[r].pc = "rejected")
             => /\ ~SessionWork(r)
                /\ req'[r].events = <<>>
                /\ req'[r].session = 0
                /\ req'[r].lookup = None
                /\ req'[r].status \in {401, 403, 429, 500}
          /\ (Moves(r) /\ req'[r].pc # "over" /\ windows' # windows)
             => /\ req[r].client \in Clients
                /\ req[r].credential = req[r].client
                /\ ~SessionWork(r)
          /\ (Moves(r) /\ req[r].pc = "authenticate"
                 /\ req'[r].pc = "rejected")
             => /\ windows' = windows
                /\ req'[r].status # 429
          /\ (Moves(r) /\ req'[r].pc # "over" /\ SessionWork(r))
             => /\ req[r].status = 200
                /\ req[r].client \in Clients
      ]_vars

\* a request has been rejected by the rate limiter while a conversation
\* of the same client and address exists
C19_Witness ==
    \E r \in Reqs :
        /\ req[r].pc = "rejected"
        /\ req[r].status = 429
        /\ req[r].token # 0
        /\ Len(convs) > 0

\* the preflight of the turn returned a non-null boundary signal with
\* terminate false, in signals mode, and the turn is over unfailed
SignalTurnOver(r) ==
    /\ req[r].pc = "finished"
    /\ req[r].failed = None
    /\ mode = "signals"
    /\ ~Truthy(req[r].preflight.terminate)

\* the turn was counted: increment_turn returned the count it wrote
TurnCounted(r) ==
    /\ req[r].new_turn_count = req[r].read_count + 1
    /\ incLog[req[r].session][Len(incLog[req[r].session])]
          = req[r].new_turn_count

\* C20 as stated (boundary signals do not gate the turn): in signals
\* mode a turn whose preflight returned a non-null boundary_signal with
\* terminate=false is counted, passes the signal to build_system_prompt,
\* streams the model and launches exactly one increment task; a turn
\* with a null boundary_signal launches none.
C20_BoundarySignalsDoNotGate ==
    \A r \in Reqs :
        SignalTurnOver(r)
        => IF req[r].preflight.boundary_signal # None
           THEN /\ TurnCounted(r)
                /\ req[r].prompt_calls = 1
                /\ req[r].prompt_boundary_signal
                      = req[r].preflight.boundary_signal
                /\ req[r].stream_calls = 1
                /\ req[r].launched = 1
           ELSE req[r].launched = 0

\* C20 amended: in signals mode a turn whose preflight returned a
\* non-null boundary_signal with terminate=false is counted and launches
\* exactly one increment task; unless the counted turn leaves
\* turns_remaining <= 0 (the farewell turn, which builds no prompt and
\* calls no model), the signal is passed to build_system_prompt and the
\* model is streamed; a turn with a null boundary_signal launches none.
C20_SignalsDoNotGateBelowMaxTurns ==
    \A r \in Reqs :
        SignalTurnOver(r)
        => IF req[r].preflight.boundary_signal # None
           THEN /\ TurnCounted(r)
                /\ req[r].launched = 1
                /\ IF MaxTurnsReached(r)
                   THEN req[r].prompt_calls = 0 /\ req[r].stream_calls = 0
                   ELSE /\ req[r].prompt_calls = 1
                        /\ req[r].prompt_boundary_signal
                              = req[r].preflight.boundary_signal
                        /\ req[r].stream_calls = 1
           ELSE req[r].launched = 0

\* a turn with the prompt_probing signal has streamed the model's reply
\* to its done event and launched its one increment task
C20_Witness ==
    \E r \in Reqs :
        /\ SignalTurnOver(r)
        /\ req[r].preflight.boundary_signal = "prompt_probing"
        /\ ~MaxTurnsReached(r)
        /\ req[r].launched = 1
        /\ req[r].stream_calls = 1
        /\ EventsOf(req[r].events, {"token"}) # {}
        /\ req[r].events[Len(req[r].events)].event = "done"

\* C21 (preflight total failure): a turn whose run_preflight raised is
\* over with exactly one error event after the session event and nothing
\* else, and has left its conversation as it found it: no message
\* stored, turn_count not incremented, no boundary-counter increment
\* launched, no model call, state active.
C21_PreflightTotalFailure ==
    \A r \in Reqs :
        req[r].failed = "preflight"
        => /\ req[r].pc = "finished"
           /\ Len(req[r].events) = 2
           /\ req[r].events[1].event = "session"
           /\ req[r].events[2] = ErrorEvent
           /\ Len(messages[req[r].session]) = req[r].rows_at_entry
           /\ req[r].user_stored_at = NullNum
           /\ req[r].assistant_stored_at = NullNum
           /\ req[r].new_turn_count = NullNum
           /\ Conv(r).turn_count = req[r].turn_count
           /\ req[r].launched = 0
           /\ req[r].stream_calls = 0
           /\ Conv(r).state = "active"

\* run_preflight has raised on the second turn of a conversation that
\* holds the messages and the count of its first turn
C21_Witness ==
    \E r \in Reqs :
        /\ req[r].failed = "preflight"
        /\ req[r].rows_at_entry > 0
        /\ Conv(r).turn_count > 0

\* C22 (mutations of a foreign conversation fail): a POST /spark/lead
\* authenticated as one client leaves every conversation owned by
\* another client unchanged, whatever conversation_id it carries.
C22_ForeignLeadFails ==
    [][\A id \in 1..Len(convs) :
          (/\ Len(leads') = Len(leads) + 1
           /\ leads'[Len(leads')].client_id # convs[id].client_id)
          => convs'[id] = convs[id]]_vars

\* C23 (ended_at invariant): in every reachable state every conversation
\* whose state is not active has ended_at set, whichever path ended it
\* (terminate, max turns reached, expiry detected by get_session).
C23_EndedAtSet ==
    \A id \in 1..Len(convs) :
        convs[id].state # "active" => convs[id].ended_at # NullNum

\* some piece of the text makes format_map raise
Malformed(template) == FormatMap(template).raises # None

\* C24 (template failures never surface): for every orientation text
\* build_system_prompt returns a prompt and does not raise; a text whose
\* substitution succeeds is filled with unknown placeholders as the
\* empty string, and a text whose substitution fails, whatever the
\* exception, gives the core template filled with the same inputs.
C24_TemplateFailuresNeverSurface ==
    promptDone =>
        /\ promptOut.raises = None
        /\ IF Malformed(promptIn)
           THEN /\ promptOut.fell_back
                /\ promptOut.prompt = FormatMap(CoreTemplate).text
           ELSE /\ ~promptOut.fell_back
                /\ promptOut.prompt = FormatMap(promptIn).text

\* C25 (wind-down): a model-answered turn that is over has exactly one
\* wind_down event, carrying turns_remaining, after the last token event
\* and right before done, if and only if new_count >=
\* min_turns_before_winddown and max_turns - new_count <= wind_down_turns;
\* otherwise it has none. A turn not answered by the model has none.
C25_WindDown ==
    \A r \in Reqs :
        LET events == req[r].events
            n == Len(events)
            wind_downs == EventsOf(events, {"wind_down"})
            turns_remaining == max_turns[req[r].client] - req[r].new_turn_count
        IN IF req[r].pc = "finished" /\ req[r].failed = None
              /\ req[r].stream_calls = 1
           THEN IF /\ req[r].new_turn_count >= spark_min_turns_before_winddown
                   /\ turns_remaining <= spark_wind_down_turns
                THEN /\ wind_downs = {n - 1}
                     /\ events[n - 1].turns_remaining = turns_remaining
                     /\ events[n].event = "done"
                     /\ \A i \in EventsOf(events, {"token"}) : i < n - 1
                ELSE wind_downs = {}
           ELSE wind_downs = {}

\* a model-answered turn has ended with a wind_down event after its tokens
C25_Witness ==
    \E r \in Reqs :
        /\ req[r].pc = "finished"
        /\ req[r].failed = None
        /\ EventsOf(req[r].events, {"token"}) # {}
        /\ EventsOf(req[r].events, {"wind_down"}) # {}

\* the limit check() is given for a caller's key
LimitOf(a) == IF a \in AdminCallers THEN admin_rate_limit_rpm ELSE rpm[a[1]]

\* C26 - Rate-limiter key isolation: a check() of one (client_id, ip)
\* changes neither the window nor the next result of check() for any
\* other (client_id, ip); a key that was never checked is admitted however
\* exhausted the others are; and no widget (client_id, ip) has the key of
\* an admin caller.
C26_KeyIsolation ==
    [][/\ \A a \in Callers, b \in Callers :
            (/\ a # b
             /\ rlLog'[RateKey(a[1], a[2])] # rlLog[RateKey(a[1], a[2])]) =>
               LET kb == RateKey(b[1], b[2])
               IN /\ windows'[kb] = windows[kb]
                  /\ rlLog'[kb] = rlLog[kb]
                  /\ CheckAllowed(windows'[kb], clock', LimitOf(b))
                        = CheckAllowed(windows[kb], clock, LimitOf(b))
       /\ \A b \in Callers :
            rlLog'[RateKey(b[1], b[2])] = <<>> =>
               CheckAllowed(windows'[RateKey(b[1], b[2])], clock', LimitOf(b))
       /\ \A a \in WidgetCallers, b \in AdminCallers :
            RateKey(a[1], a[2]) # RateKey(b[1], b[2])]_vars

\* (A, ip1) was exhausted and, while it still is, (A, ip2), (B, ip1) and
\* an admin caller were admitted
C26_Witness ==
    /\ clock > 0
    /\ Len(rlLog[RateKey("A", "ip1")]) = 2
    /\ rlLog[RateKey("A", "ip1")][2] = [t |-> 0, ok |-> FALSE]
    /\ ~CheckAllowed(windows[RateKey("A", "ip1")], clock, rpm["A"])
    /\ \A a \in {<<"A", "ip2">>, <<"B", "ip1">>,
                  <<AdminClientId("h1"), "admin">>} :
          rlLog[RateKey(a[1], a[2])] = <<[t |-> clock, ok |-> TRUE]>>
\* C27 - Conditional history: the boundary classifier's prompt has a
\* history section exactly when prior_signals > 0 and the conversation has
\* stored messages, and the section is then the last ten stored messages
\* (all of them when there are fewer), in order; with prior_signals 0 the
\* prompt carries the current message only; the state classifier's prompt
\* carries the current message and no history.
C27_ConditionalHistory ==
    pfDone =>
       LET section == pfOut.boundary_prompt.history_section
           stored == pfIn.stored
           n == IF Len(stored) < 10 THEN Len(stored) ELSE 10
       IN /\ pfOut.boundary_prompt.message = pfIn.message
          /\ section # <<>> <=> (pfOut.prior_signals > 0 /\ stored # <<>>)
          /\ section # <<>> =>
                /\ Len(section) = n
                /\ \A i \in 1..n :
                      section[i] = stored[Len(stored) - n + i]
          /\ pfOut.state_prompt.message = pfIn.message
          /\ pfOut.state_prompt.history_section = <<>>

\* a conversation with more than ten stored messages and a boundary signal
\* on record: the prompt carries ten of them
C27_Witness ==
    /\ pfDone
    /\ pfOut.prior_signals > 0
    /\ Len(pfIn.stored) > 2 * spark_context_turns
    /\ Len(pfOut.boundary_prompt.history_section) = 10
\* the positions of spark_chat before event_stream runs, the responses
\* that have no stream (401, 429) and a request that is over
BeforeStream ==
    {"idle", "authenticate", "rate_limit", "get_session", "mark_expired",
     "create_session", "rejected", "over"}

\* C28 - Session event first: a request has a stream exactly when it is
\* past session management, the stream's first event is a session event
\* and its only one, the event's session_token and conversation_id are
\* those of the request's conversation (a row's token and its id are both
\* its index), and every later step of the
\* request creates no conversation and changes no row, message list,
\* boundary task or increment of any other conversation.
C28_SessionEventFirst ==
    [][\A r \in Reqs :
          req'[r] # req[r] =>
          LET events == req'[r].events
          IN /\ events = <<>> <=> req'[r].pc \in BeforeStream
             /\ events # <<>> =>
                   /\ events[1].event = "session"
                   /\ \A i \in 2..Len(events) : events[i].event # "session"
                   /\ req'[r].session \in 1..Len(convs')
                   /\ events[1].conversation_id = req'[r].session
                   /\ events[1].session_token = req'[r].session
             /\ req[r].events # <<>> =>
                   /\ Len(convs') = Len(convs)
                   /\ events # <<>> => events[1] = req[r].events[1]
                   /\ \A id \in 1..Len(convs) \
                                  {req[r].events[1].conversation_id} :
                         /\ convs'[id] = convs[id]
                         /\ messages'[id] = messages[id]
                         /\ tasks'[id] = tasks[id]
                         /\ incLog'[id] = incLog[id]]_vars

\* a request that presented the token of the first conversation, was
\* given a second one, and whose stream counted its turn, stored both
\* messages and finished
C28_Witness ==
    \E r \in Reqs :
        /\ req[r].pc = "finished"
        /\ req[r].failed = None
        /\ req[r].token = 1
        /\ req[r].session = 2
        /\ Len(messages[1]) > 0
        /\ req[r].events[1].event = "session"
        /\ req[r].events[1].conversation_id = 2
        /\ req[r].events[1].session_token = 2
        /\ req[r].new_turn_count = convs[2].turn_count
        /\ req[r].user_stored_at # NullNum
        /\ req[r].assistant_stored_at # NullNum
        /\ req[r].events[Len(req[r].events)].event = "done"
\* C29 - Retrieval merge: when both searches answer, the chunks returned
\* are min(k, size of the union) distinct rows of the union of the
\* knowledge rows and the document rows, in non-increasing similarity
\* order, and no row of the union left out has a strictly higher
\* similarity than a returned one.
C29_RetrievalMerge ==
    (pfDone /\ ~pfOut.raised /\ ~RetrievalFailed(pfIn.retrieval)) =>
       LET union == pfIn.retrieval.knowledge \o pfIn.retrieval.docs
           chunks == pfOut.retrieved_chunks
           k == spark_max_doc_chunks
           returned == {chunks[i] : i \in 1..Len(chunks)}
       IN /\ Len(chunks) = (IF Len(union) < k THEN Len(union) ELSE k)
          /\ Cardinality(returned) = Len(chunks)
          /\ \A c \in returned : InRows(c, union)
          /\ \A i \in 1..(Len(chunks) - 1) : chunks[i].sim >= chunks[i + 1].sim
          /\ \A j \in 1..Len(union) :
                union[j] \notin returned =>
                   \A c \in returned : union[j].sim <= c.sim

\* the two searches returned more than k rows between them, a document
\* row outranks a knowledge row, and the row left out is the lowest
C29_Witness ==
    /\ pfDone
    /\ ~pfOut.raised
    /\ ~RetrievalFailed(pfIn.retrieval)
    /\ Len(pfIn.retrieval.knowledge) + Len(pfIn.retrieval.docs)
          > spark_max_doc_chunks
    /\ Len(pfOut.retrieved_chunks) = spark_max_doc_chunks
    /\ \E i, j \in 1..Len(pfOut.retrieved_chunks) :
          /\ i < j
          /\ pfOut.retrieved_chunks[i].src = "docs"
          /\ pfOut.retrieved_chunks[j].src = "knowledge"
          /\ pfOut.retrieved_chunks[i].sim > pfOut.retrieved_chunks[j].sim
    /\ \E row \in {pfIn.retrieval.docs[n] : n \in 1..Len(pfIn.retrieval.docs)} :
          /\ \A i \in 1..Len(pfOut.retrieved_chunks) :
                /\ pfOut.retrieved_chunks[i] # row
                /\ pfOut.retrieved_chunks[i].sim > row.sim
\* C30 - Stored turn_count never decreases: no step lowers the
\* turn_count of a conversation, whatever the interleaving of the
\* increment_turn calls in flight.
C30_TurnCountNeverDecreases ==
    [][\A id \in 1..Len(convs) :
          convs'[id].turn_count >= convs[id].turn_count]_vars
\* the estimated tokens of the components as given
GivenTokens(components) ==
    TotalTokens([n \in {components[i].name : i \in 1..Len(components)} |->
                    components[CHOOSE i \in 1..Len(components) :
                                  components[i].name = n].text.len])

\* C31 - P1/P2 are never trimmed: for every list of named components,
\* _trim_to_budget returns each priority-1 and priority-2 component as it
\* was given, also when the total stays over budget, and when the total
\* is within budget it returns every component as it was given.
C31_FixedTiersUntouched ==
    promptDone =>
       /\ \A i \in 1..Len(promptIn) :
             promptIn[i].priority \in {P1_NEVER_TRIM, P2_FIXED} =>
                promptOut.result[promptIn[i].name] = promptIn[i].text.len
       /\ GivenTokens(promptIn) <= TOKEN_BUDGET =>
             \A i \in 1..Len(promptIn) :
                promptOut.result[promptIn[i].name] = promptIn[i].text.len

\* a P1 and a P2 component over budget together and a P4 component that
\* was cut: the warning is logged and the two are as given
C31_Witness ==
    /\ promptDone
    /\ promptOut.warned
    /\ \E i, j, k \in 1..Len(promptIn) :
          /\ promptIn[i].priority = P1_NEVER_TRIM
          /\ promptIn[j].priority = P2_FIXED
          /\ promptIn[i].text.len + promptIn[j].text.len
                > TOKEN_BUDGET * CHARS_PER_TOKEN
          /\ promptIn[k].priority = P4_TRIM_FIRST
          /\ promptOut.result[promptIn[k].name] < promptIn[k].text.len
          /\ promptOut.result[promptIn[j].name] = promptIn[j].text.len
\* the tier the deflection of a preflight result is taken from
MappedTier(result) ==
    IF Truthy(result.terminate) THEN "terminate"
    ELSE IF result.boundary_signal = "identity_breaking" THEN "firm"
    ELSE IF result.boundary_signal = "extraction_framing" THEN "firm"
    ELSE IF result.boundary_signal = "adversarial_stress" THEN "firm"
    ELSE "subtle"

\* a gate-mode turn that ran to its end after preflight reported a
\* boundary signal or terminate
GateDeflected(r) ==
    /\ mode = "gate"
    /\ req[r].pc = "finished"
    /\ req[r].failed = None
    /\ \/ req[r].preflight.boundary_signal # None
       \/ Truthy(req[r].preflight.terminate)

Verified(r) == req[r].pc \notin {"idle", "authenticate", "over"}

\* C33 as stated (widget authentication outcomes): a request with no key
\* or with a key whose hash matches no client is rejected with 401, a key
\* that matches an inactive client is rejected with 403, and a client is
\* returned only for a key matching an active client.
C33_AuthenticationOutcomes ==
    \A r \in Reqs :
        Verified(r) =>
           /\ req[r].credential \in {"missing", "unknown"}
                 => req[r].pc = "rejected" /\ req[r].status = 401
           /\ req[r].credential = "deactivated"
                 => req[r].pc = "rejected" /\ req[r].status = 403
           /\ req[r].client # None
                 => req[r].credential \in Clients
                    /\ req[r].client = req[r].credential

\* C33 amended: a request with no key is rejected with 401; a request
\* with a key is rejected with 500 when the key lookup raises; when the
\* lookup completes, a key whose hash matches no client is rejected with
\* 401 and a key that matches an inactive client with 403; a client is
\* returned only for a key matching an active client, and it is that
\* client.
C33_OutcomesOfCompletedLookup ==
    /\ \A r \in Reqs :
          Verified(r) =>
             /\ req[r].credential = "missing"
                   => req[r].pc = "rejected" /\ req[r].status = 401
             /\ req[r].credential = "unknown"
                   => req[r].pc = "rejected" /\ req[r].status \in {401, 500}
             /\ req[r].credential = "deactivated"
                   => req[r].pc = "rejected" /\ req[r].status \in {403, 500}
             /\ req[r].client # None
                   => req[r].credential \in Clients
                      /\ req[r].client = req[r].credential
    /\ \A credential \in Credentials :
          /\ VerifySparkApiKey(credential, TRUE) =
                [status |-> IF credential = "missing" THEN 401 ELSE 500,
                 client |-> None]
          /\ VerifySparkApiKey(credential, FALSE) =
                IF credential \in Clients
                THEN [status |-> 200, client |-> credential]
                ELSE [status |-> IF credential = "deactivated" THEN 403
                                 ELSE 401,
                      client |-> None]

\* after a turn of an active client was served, a request with the key
\* of a deactivated client has been rejected with 403
C33_Witness ==
    \E r \in Reqs :
        /\ req[r].pc = "rejected"
        /\ req[r].credential = "deactivated"
        /\ req[r].status = 403
        /\ Len(convs) > 0

\* C34 (CSV injection guard): for every cell value, _sanitize_csv returns
\* the value with one single quote put before it when its first character
\* is =, +, -, @, tab or carriage return, and the value unchanged
\* otherwise, the empty string included.
C34_CsvInjectionGuard ==
    csvDone =>
       IF Len(csvIn) > 0
          /\ \/ csvIn[1] = "=" \/ csvIn[1] = "+" \/ csvIn[1] = "-"
             \/ csvIn[1] = "@" \/ csvIn[1] = "\t" \/ csvIn[1] = "\r"
       THEN /\ Len(csvOut) = Len(csvIn) + 1
            /\ csvOut[1] = "'"
            /\ Tail(csvOut) = csvIn
       ELSE csvOut = csvIn

\* a cell that starts with a tab has been written with the quote before
\* it, and so has a formula cell
C34_Witness ==
    /\ csvDone
    /\ csvIn \in {<<"\t", "a">>, <<"=", "1", "+">>}
    /\ csvOut[1] = "'"
    /\ Len(csvOut) = Len(csvIn) + 1

\* the check() calls of a log that were admitted, in call order
Admitted(log) == SelectSeq(log, LAMBDA e : e.ok)

\* C35 (sliding-window bound): for every key used with a fixed limit and
\* every interval of 60 s, at most limit of the check() calls admitted
\* for the key have their timestamp inside the interval [a, a + 60) (an
\* interval with the most admissions can be taken to start at an
\* admitted timestamp), under every interleaving of the calls; and after
\* each check() of a key its stored timestamps are in order and lie
\* within the 60 s that end at the call.
C35_SlidingWindowBound ==
    \A c \in Clients, ip \in IPs :
        LET key == RateKey(c, ip)
            limit == rpm[c]
            adm == Admitted(rlLog[key])
            w == windows[key]
        IN /\ \A i \in 1..Len(adm) :
                 Cardinality({j \in 1..Len(adm) :
                                /\ adm[j].t >= adm[i].t
                                /\ adm[j].t < adm[i].t + WindowSeconds})
                    <= limit
           /\ rlLog[key] # <<>> =>
                 LET now == rlLog[key][Len(rlLog[key])].t
                 IN /\ \A i \in 1..Len(w) :
                          w[i] > now - WindowSeconds /\ w[i] <= now
                    /\ \A i \in 1..Len(w), j \in 1..Len(w) :
                          i < j => w[i] <= w[j]

\* a key of limit 2 was admitted twice, rejected, admitted again once its
\* oldest timestamp was 60 s old, and rejected again
C35_Witness ==
    \E c \in Clients, ip \in IPs :
        LET key == RateKey(c, ip)
        IN /\ rpm[c] = 2
           /\ Len(Admitted(rlLog[key])) = 3
           /\ Len(rlLog[key]) = 5
           /\ ~rlLog[key][5].ok
           /\ Len(windows[key]) = 2

\* the first moment, from now on, at which a check() of the window would
\* be admitted
AdmittedAgainAt(timestamps, now, rpm_limit) ==
    CHOOSE t \in now..(now + WindowSeconds) :
        /\ CheckAllowed(timestamps, t, rpm_limit)
        /\ \A u \in now..(t - 1) : ~CheckAllowed(timestamps, u, rpm_limit)

\* C36 (rejected requests are not recorded): a check() that returns False
\* adds no timestamp to the key's window (what is stored afterwards was
\* stored before, and the call's own timestamp is not added), so the
\* moment at which the key is admitted again is the same after the
\* rejected call as before it.
C36_RejectedNotRecorded ==
    [][\A c \in Clients, ip \in IPs :
          LET key == RateKey(c, ip)
              limit == rpm[c]
          IN (/\ rlLog'[key] # rlLog[key]
              /\ ~rlLog'[key][Len(rlLog'[key])].ok)
             => /\ Len(windows'[key]) <= Len(windows[key])
                /\ \A i \in 1..Len(windows'[key]) :
                      \E j \in 1..Len(windows[key]) :
                          windows'[key][i] = windows[key][j]
                /\ windows'[key] = Prune(windows[key], clock)
                /\ AdmittedAgainAt(windows'[key], clock, limit)
                      = AdmittedAgainAt(windows[key], clock, limit)
                /\ AdmittedAgainAt(windows'[key], clock, limit)
                      = windows'[key][1] + WindowSeconds
      ]_vars

\* a key was rejected three times in a row, the last time half a window
\* after the first, and admitted 60 s after its one stored timestamp
C36_Witness ==
    \E c \in Clients, ip \in IPs :
        LET log == rlLog[RateKey(c, ip)]
        IN /\ rpm[c] = 1
           /\ Len(log) = 5
           /\ log[1].ok /\ ~log[2].ok /\ ~log[3].ok /\ ~log[4].ok
           /\ log[4].t > log[2].t
           /\ log[5].ok
           /\ log[5].t = log[1].t + WindowSeconds

\* the text is built from the fallback model's response
FromFallback(text) == \E i \in 1..Len(text) : text[i] = "fallback"

\* C37 (single-response delivery on fallback): whenever the primary
\* stream failed, before or after yielding deltas, and the fallback
\* succeeded, the deltas process_message received, the token events it
\* emitted and the assistant message stored from them are the fallback
\* result alone, as one delta: no delta of the primary model precedes it.
C37_SingleResponseOnFallback ==
    /\ \A r \in Reqs :
          FromFallback(req[r].full_response)
          => /\ req[r].full_response = <<"fallback">>
             /\ \A i \in EventsOf(req[r].events, {"token"}) :
                   req[r].events[i].text = "fallback"
    /\ \A id \in 1..Len(convs) : \A i \in 1..Len(messages[id]) :
          (messages[id][i].role = "assistant"
             /\ FromFallback(messages[id][i].content))
          => messages[id][i].content = <<"fallback">>

\* the llm.stream calls the requests of the conversation's own client
\* have made for conversation id
RECURSIVE StreamCallsFor(_, _)
StreamCallsFor(id, rs) ==
    IF rs = {} THEN 0
    ELSE LET r == CHOOSE x \in rs : TRUE
         IN (IF req[r].session = id /\ req[r].client = convs[id].client_id
             THEN req[r].stream_calls ELSE 0)
            + StreamCallsFor(id, rs \ {r})

\* C38 (turn limit under concurrency): under every interleaving of
\* /spark/chat requests in flight on one session, the number of model
\* stream calls made for a conversation stays below the max_turns of its
\* client, so that it receives at most max_turns - 1 model-generated
\* replies.
C38_TurnLimitUnderConcurrency ==
    \A id \in 1..Len(convs) :
        StreamCallsFor(id, Reqs) < max_turns[convs[id].client_id]

\* C39 (no activity after the end): no step appends a message to a
\* conversation whose state is terminated, completed or expired, changes
\* its turn_count or enters llm.stream for it, whichever request takes
\* the step; and a get_session with the token of such a conversation
\* finds no session, so that the request is served on a new one.
C39_NoActivityAfterEnd ==
    [][\A id \in 1..Len(convs) :
          convs[id].state \in TerminalStates
          => /\ messages'[id] = messages[id]
             /\ convs'[id].turn_count = convs[id].turn_count
             /\ \A r \in Reqs :
                   (req[r].session = id /\ req'[r].session = id)
                   => req'[r].stream_calls = req[r].stream_calls
             /\ \A r \in Reqs :
                   (/\ req[r].pc = "get_session"
                    /\ req[r].token = id
                    /\ req'[r] # req[r])
                   => req'[r].pc = "create_session"
      ]_vars

====
